---- MODULE Spec2Model ----
(***************************************************************************)
(* A model of the trailer-assembly core of trailmixer:                     *)
(*   - the segment validators of app/video.py (sanitize_segments,          *)
(*     _clamp_segments) and crop_video and apply_music, which use them;    *)
(*   - crop_and_stitch_video_segments and stitch_videos_together of        *)
(*     app/pipeline.py, with the engine (ffmpeg) as a nondeterministic     *)
(*     environment: every invocation may exit zero or non-zero and may     *)
(*     leave no file, or a file of any size;                               *)
(*   - add_music_to_video of app/pipeline.py and the filter graph it       *)
(*     builds;                                                             *)
(*   - stitch_ffmpeg_request of app/ffmpeg_stitch.py.                      *)
(* Times are integers (seconds for the validators and the extractor,       *)
(* ticks of 1/TicksPerMs milliseconds for the overlay mixer).              *)
(***************************************************************************)
EXTENDS Integers, Sequences, FiniteSets, TLC

\* ---- bounds of the model ----
MaxSegs == 2                       \* longest raw segment list
MaxPaths == 3                      \* longest list given to stitch_videos_together
MaxTracks == 2                     \* most music tracks in one overlay call
TicksPerMs == 2                    \* overlay times are in ticks of 1/TicksPerMs ms
RawTimes == {-5, 0, 10, 20, 25, 30} \* raw start / end values a caller supplies
Durations == {10, 20}              \* true source durations

VARIABLES
  op,              \* the function this run calls
  pc,              \* position in that function
  segments,        \* the caller's raw segment list
  video_duration,  \* the true duration of the source
  cleaned,         \* list returned by a validator
  temp_clips,      \* crop_video, apply_music: the clips handed to concatenate_videoclips
  raised,          \* the exception that left the function (NoError if none)
  returned,        \* the path the function returned (NoPath if none)
  os_name,         \* os.name of the platform
  video_exists,    \* os.path.exists(video_filepath)
  output_path,     \* the caller's output path
  seg_idx,         \* crop_and_stitch: the segment being extracted (i + 1)
  temp_dir,        \* crop_and_stitch: "unset", "present" or "removed"
  files,           \* the filesystem: path -> size in bytes, Absent if no file
  temp_files,      \* crop_and_stitch: the segment files accepted so far
  cmds,            \* every external process launched, in order
  video_file_paths,\* stitch_videos_together: its input list
  manifest,        \* the lines of the concat list file
  manifest_exists, \* the concat list file is on disk
  output_size,     \* size of the file at the output path, Absent if none
  music_tracks,    \* add_music_to_video: the caller's tracks, in dict order
  video_volume,    \* add_music_to_video: gain of the original audio
  music_volume,    \* add_music_to_video: master gain of the music
  validated_tracks,\* add_music_to_video: the tracks after validation
  filter_parts,    \* add_music_to_video: the per-input filter chains;
                   \* stitch_ffmpeg_request: the audio streams given to the mixer
  amix,            \* add_music_to_video: the mix filter
  request,         \* stitch_ffmpeg_request: the FfmpegRequest it is given
  workers,         \* concurrent jobs: each job's position and local variables
  disk,            \* concurrent jobs: per temporary path, the job that created
                   \* the file or directory now there ("none" if nothing is)
  touched,         \* concurrent jobs: the job that took the last step and the
                   \* creators of the temporary paths it read, wrote or deleted
  job_status,      \* job pipelines: the ids that have an entry in the registry
  job,             \* job pipelines: the JobInfo object created for the job
  response         \* job pipelines: what delete_job last answered ("none" if not called)

validator_vars == <<segments, video_duration, cleaned, temp_clips>>
stitch_vars == <<os_name, video_file_paths, manifest, manifest_exists, output_size>>
crop_vars == <<video_exists, output_path, seg_idx, temp_dir, files, temp_files>>
music_vars == <<music_tracks, video_volume, music_volume, validated_tracks,
                filter_parts, amix>>
jobs_vars == <<workers, disk, touched>>
registry_vars == <<job_status, job, response>>
vars == <<op, pc, raised, returned, cmds, validator_vars, stitch_vars, crop_vars,
          music_vars, request, jobs_vars, registry_vars>>

\* ---- helpers ----
Max(a, b) == IF a >= b THEN a ELSE b
Min(a, b) == IF a <= b THEN a ELSE b

\* the sequences over S of length at most n
SeqsUpTo(S, n) == UNION {[1..k -> S] : k \in 0..n}

\* ---- app/utils.py ----
SecondsPerMinute == 60
\* _to_seconds on the timestamp shapes the model feeds it: a number, or a
\* "MM:SS" string (held as its two fields).
NumTs(n) == [kind |-> "num", mm |-> 0, ss |-> n]
MmSsTs(m, s) == [kind |-> "mmss", mm |-> m, ss |-> s]
_to_seconds(v) ==
  IF v.kind = "num" THEN v.ss ELSE v.mm * SecondsPerMinute + v.ss

\* ---- app/video.py: the validators ----
\* (a clamp that forgets the lower bound)
ClampNoFloor(x, duration) == Min(x, duration)

\* max(0.0, min(float(x), video_duration))
Clamp(x, duration) == Max(0, Min(x, duration))

\* (an insertion that puts an element before the elements of equal key)
RECURSIVE InsertBeforeEqual(_, _)
InsertBeforeEqual(sorted, seg) ==
  IF sorted = <<>> THEN <<seg>>
  ELSE IF Head(sorted).start < seg.start
       THEN <<Head(sorted)>> \o InsertBeforeEqual(Tail(sorted), seg)
       ELSE <<seg>> \o sorted

\* list.sort(key=start): a stable insertion of each element after every
\* element whose key is <= its own.
RECURSIVE InsertByStart(_, _)
InsertByStart(sorted, seg) ==
  IF sorted = <<>> THEN <<seg>>
  ELSE IF Head(sorted).start <= seg.start
       THEN <<Head(sorted)>> \o InsertByStart(Tail(sorted), seg)
       ELSE <<seg>> \o sorted

RECURSIVE SortByStart(_)
SortByStart(s) ==
  IF s = <<>> THEN <<>>
  ELSE InsertByStart(SortByStart(SubSeq(s, 1, Len(s) - 1)), s[Len(s)])

\* the loop of sanitize_segments: clamp, keep positive-length ranges
RECURSIVE SanitizeLoop(_, _)
SanitizeLoop(segs, duration) ==
  IF segs = <<>> THEN <<>>
  ELSE LET seg   == Head(segs)
           start == Clamp(seg.start, duration)
           end   == Clamp(seg.end, duration)
           rest  == SanitizeLoop(Tail(segs), duration)
       IN  IF end > start
           THEN <<[start |-> start, end |-> end]>> \o rest
           ELSE rest

sanitize_segments(segs, duration) == SortByStart(SanitizeLoop(segs, duration))

\* the loop of _clamp_segments: as above, through _to_seconds, keeping song_path
RECURSIVE ClampLoop(_, _)
ClampLoop(segs, duration) ==
  IF segs = <<>> THEN <<>>
  ELSE LET seg   == Head(segs)
           start == Clamp(_to_seconds(seg.start), duration)
           end   == Clamp(_to_seconds(seg.end), duration)
           rest  == ClampLoop(Tail(segs), duration)
       IN  IF end > start
           THEN <<[start |-> start, end |-> end, song_path |-> seg.song_path]>> \o rest
           ELSE rest

_clamp_segments(segs, duration) == SortByStart(ClampLoop(segs, duration))

\* ---- exceptions, paths and the filesystem ----
\* An exception: its type, its message template and what the message carries
\* (index: the 1-based unit number printed in it, 0 if none; start, duration:
\* the times printed in it, -1 if none; diag: the engine's captured
\* stderr/stdout is appended; wrapped: the prefix an outer handler put on it).
NoError == [type |-> "none", msg |-> "none", index |-> 0, start |-> -1,
            duration |-> -1, diag |-> FALSE, wrapped |-> "none"]
Err(type, msg) == [NoError EXCEPT !.type = type, !.msg = msg]
NoPath == <<>>
Absent == -1

\* os.path.abspath with the working directory at the root of the (current)
\* drive; on nt it also turns every "/" into "\".
AbsPath(os, p) ==
  IF os = "nt"
  THEN LET q == [k \in 1..Len(p) |-> IF p[k] = "/" THEN "\\" ELSE p[k]]
       IN  IF Len(q) > 0 /\ q[1] = "C:" THEN q
           ELSE IF Len(q) > 0 /\ q[1] = "\\" THEN <<"C:">> \o q
           ELSE <<"C:", "\\">> \o q
  ELSE IF Len(p) > 0 /\ p[1] = "/" THEN p ELSE <<"/">> \o p

\* str.replace(ch, repl) on a path held as a sequence of characters
RECURSIVE Replace(_, _, _)
Replace(p, ch, repl) ==
  IF p = <<>> THEN <<>>
  ELSE (IF Head(p) = ch THEN repl ELSE <<Head(p)>>) \o Replace(Tail(p), ch, repl)

QuoteEscape == <<"'", "\"", "'", "\"", "'">>

\* the path as written into the concat list
FfmpegPath(os, video_path) ==
  IF os = "nt"
  THEN Replace(Replace(video_path, "\\", <<"/">>), "'", QuoteEscape)
  ELSE Replace(video_path, "'", QuoteEscape)

ManifestLine(os, video_path) == <<"file '">> \o FfmpegPath(os, video_path) \o <<"'", "\n">>

\* how the engine ("-f concat -i temp_list_path") reads a word of the list:
\* between single quotes every character is taken literally and the next
\* single quote closes the quoting; outside quotes a backslash makes the next
\* character literal and white space ends the word; a double quote is an
\* ordinary character
RECURSIVE GetToken(_, _)
GetToken(chars, quoted) ==
  IF chars = <<>> THEN <<>>
  ELSE LET c == Head(chars)
           rest == Tail(chars)
       IN  IF quoted
           THEN IF c = "'" THEN GetToken(rest, FALSE)
                ELSE <<c>> \o GetToken(rest, TRUE)
           ELSE IF c = "'" THEN GetToken(rest, TRUE)
           ELSE IF c = "\\"
                THEN IF rest = <<>> THEN <<>>
                     ELSE <<Head(rest)>> \o GetToken(Tail(rest), FALSE)
           ELSE IF c \in {" ", "\n"} THEN <<>>
           ELSE <<c>> \o GetToken(rest, FALSE)

\* the path the engine takes from one line "file '...'" of the list
ConcatListPath(line) ==
  IF line # <<>> /\ Head(line) = "file '" THEN GetToken(Tail(line), TRUE) ELSE NoPath

\* (a loop that writes each distinct path once)
RECURSIVE WriteManifestDedup(_, _)
WriteManifestDedup(os, normalized_paths) ==
  IF normalized_paths = <<>> THEN <<>>
  ELSE LET n    == Len(normalized_paths)
           rest == WriteManifestDedup(os, SubSeq(normalized_paths, 1, n - 1))
       IN  IF \E j \in 1..(n - 1) : normalized_paths[j] = normalized_paths[n]
           THEN rest
           ELSE Append(rest, ManifestLine(os, normalized_paths[n]))

\* the loop writing the concat list: one line per normalized path, in order
RECURSIVE WriteManifest(_, _)
WriteManifest(os, normalized_paths) ==
  IF normalized_paths = <<>> THEN <<>>
  ELSE <<ManifestLine(os, Head(normalized_paths))>> \o WriteManifest(os, Tail(normalized_paths))

\* mkdtemp(prefix="video_segments_") and the segment file names inside it
TempDir == <<"/", "tmp", "/", "video_segments_">>
SegmentNumber == <<"001", "002", "003", "004">>
SegmentPath(i) == TempDir \o <<"/", "segment_", SegmentNumber[i], ".mp4">>

\* ---- the engine, as the code sees it ----
MinValidSize == 1000
ExitCodes == {0, 1}
FileOutcomes == {Absent, MinValidSize, MinValidSize + 1}
\* one launched process: what was asked of it, its exit code and, when the
\* code went on to look at the output path (exit code 0), the size of the file
\* it found there (Absent if none); Unchecked when it did not look
Unchecked == -2
Cmd(tool, tier, index, start, duration, exit, size) ==
  [tool |-> tool, tier |-> tier, index |-> index, start |-> start, duration |-> duration,
   exit |-> exit, size |-> IF exit = 0 THEN size ELSE Unchecked]

\* (an acceptance test that trusts the exit code)
FastAcceptedOnExit(exit, size) == exit = 0

\* the fast attempt is accepted: it exited 0 (no CalledProcessError) and
\* os.path.exists(path) and os.path.getsize(path) > 1000
FastAccepted(exit, size) == exit = 0 /\ size # Absent /\ size > MinValidSize

\* ---- inputs ----
RawSegments == [start : RawTimes, end : RawTimes]
RawSegmentLists == SeqsUpTo(RawSegments, MaxSegs)

SongPaths == {"happy.mp3"}
RawTimestamps == {NumTs(n) : n \in {-5, 0, 10}} \cup {MmSsTs(0, 10), MmSsTs(1, 0)}
RawMusicSegments == [start : RawTimestamps, end : RawTimestamps, song_path : SongPaths]
RawMusicSegmentLists == SeqsUpTo(RawMusicSegments, MaxSegs)

\* the source is 20 s long; a caller asks for two adjacent ranges inside it, a
\* range that lies after its end, a range that starts before 0 and an empty
\* range
CropDurations == {20}
CropSegments ==
  {[start |-> 0, end |-> 5], [start |-> 5, end |-> 10], [start |-> 25, end |-> 30],
   [start |-> -5, end |-> 10], [start |-> 10, end |-> 10]}
\* the segments apply_music is given: a range inside the source, a range
\* written as "MM:SS" that ends after it, a range that clamps to nothing and a
\* range whose song file does not exist
ApplyMusicSegments ==
  {[start |-> NumTs(0), end |-> NumTs(10), song_path |-> "happy.mp3"],
   [start |-> MmSsTs(0, 10), end |-> MmSsTs(1, 0), song_path |-> "happy.mp3"],
   [start |-> NumTs(25), end |-> NumTs(25), song_path |-> "happy.mp3"],
   [start |-> NumTs(-5), end |-> NumTs(10), song_path |-> "missing.mp3"]}
ApplyMusicSegmentLists == SeqsUpTo(ApplyMusicSegments, MaxSegs)
\* PROCESSED_DIR / output_filename
ProcessedPath == <<"processed", "/", "out.mp4">>
CropSegmentLists == SeqsUpTo(CropSegments, MaxSegs)
OutputPaths == {<<>>, <<"out.mp4">>}

GonePath == <<"/", "gone">>
CallerPaths == {<<"/", "a">>, <<"b">>, <<"/", "q", "'">>, GonePath}
CallerPathLists == SeqsUpTo(CallerPaths, MaxPaths)
SegmentPaths == {SegmentPath(k) : k \in 1..(MaxSegs + 1)}
InputSize == 5000
InitialFiles(os) ==
  [f \in {AbsPath(os, p) : p \in CallerPaths} \cup SegmentPaths |->
     IF f \in SegmentPaths \/ f = AbsPath(os, GonePath) THEN Absent ELSE InputSize]

\* overlay inputs: times in ticks; volumes in hundredths (VolumeUnit is 1.0)
VolumeUnit == 100
DefaultMusicVolume == 25
MsPerSecond == 1000
TicksPerSecond == TicksPerMs * MsPerSecond
MusicVideoDurations == {2 * TicksPerMs}
TrackStarts == {-1, 0, 1, TicksPerMs}
TrackEnds == {TicksPerMs, 2 * TicksPerMs, 2 * TicksPerMs + 1}
\* the per-track 'volume' entry each caller's track carries
TrackVolume(audio_path) == IF audio_path = "sad.mp3" THEN 30 ELSE 50
\* the gains a caller passes: the defaults, and a negative one for each
VideoVolumes == {VolumeUnit, -VolumeUnit}
MusicVolumes == {DefaultMusicVolume, -DefaultMusicVolume}
MusicPaths == {"sad.mp3", "happy.mp3", "missing.mp3"}
MusicFileExists(audio_path) == audio_path # "missing.mp3"
\* every music file on disk is longer than any window
MusicFileLength(audio_path) == 4 * TicksPerMs
MusicTrack ==
  {[path |-> p, start |-> s, end |-> e, volume |-> TrackVolume(p)] :
     p \in MusicPaths, s \in TrackStarts, e \in TrackEnds}
\* a dict has each key once
MusicTrackLists ==
  {t \in SeqsUpTo(MusicTrack, MaxTracks) :
     \A j, k \in 1..Len(t) : j # k => t[j].path # t[k].path}
NoMix == [inputs |-> 0, duration |-> "none"]

\* a "HH:MM:SS" time string, held as its three fields
Hms(h, m, s) == [hh |-> h, mm |-> m, ss |-> s]
\* the input segments of a request: a video with its own audio, a muted
\* video, a music file placed 5 s into the output, a music file placed at its
\* start, a video that does not exist and a segment whose file_type is neither
\* 'video' nor 'audio'; volumes in hundredths
InputSegments ==
  {[file_path |-> "video.mp4", file_type |-> "video", volume |-> VolumeUnit,
    start_time |-> Hms(0, 0, 0)],
   [file_path |-> "silent.mp4", file_type |-> "video", volume |-> 0,
    start_time |-> Hms(0, 0, 0)],
   [file_path |-> "music.mp3", file_type |-> "audio", volume |-> 50,
    start_time |-> Hms(0, 0, 5)],
   [file_path |-> "intro.mp3", file_type |-> "audio", volume |-> 30,
    start_time |-> Hms(0, 0, 0)],
   [file_path |-> "gone.mp4", file_type |-> "video", volume |-> VolumeUnit,
    start_time |-> Hms(0, 0, 0)],
   [file_path |-> "poster.png", file_type |-> "image", volume |-> VolumeUnit,
    start_time |-> Hms(0, 0, 0)]}
InputFileExists(file_path) == file_path # "gone.mp4"
FfmpegRequests ==
  [input_segments : SeqsUpTo(InputSegments, MaxSegs), output_file : {<<"out.mp4">>}]
NoRequest == [input_segments |-> <<>>, output_file |-> NoPath]

MusicIdle ==
  /\ request = NoRequest
  /\ music_tracks = <<>> /\ video_volume = VolumeUnit /\ music_volume = DefaultMusicVolume
  /\ validated_tracks = <<>> /\ filter_parts = <<>> /\ amix = NoMix

ValidatorIdle ==
  /\ segments = <<>> /\ video_duration = 0 /\ cleaned = <<>> /\ temp_clips = <<>>
StitchIdle ==
  /\ os_name = "posix" /\ video_file_paths = <<>> /\ manifest = <<>>
  /\ manifest_exists = FALSE /\ output_size = Absent
CropIdle ==
  /\ video_exists = TRUE /\ output_path = <<"out.mp4">> /\ seg_idx = 0
  /\ temp_dir = "unset" /\ files = InitialFiles("posix") /\ temp_files = <<>>
CallIdle ==
  /\ pc = "start" /\ raised = NoError /\ returned = NoPath /\ cmds = <<>>

InitValidate ==
  /\ op \in {"sanitize_segments", "_clamp_segments"}
  /\ video_duration \in Durations
  /\ segments \in IF op = "_clamp_segments" THEN RawMusicSegmentLists ELSE RawSegmentLists
  /\ cleaned = <<>>
  /\ temp_clips = <<>>
  /\ CallIdle /\ StitchIdle /\ CropIdle /\ MusicIdle

InitCrop ==
  /\ op \in {"crop_and_stitch_video_segments", "crop_video"}
  /\ video_duration \in CropDurations
  /\ segments \in CropSegmentLists
  /\ cleaned = <<>>
  /\ temp_clips = <<>>
  /\ CallIdle /\ StitchIdle
  /\ video_exists \in (IF op = "crop_video" THEN {TRUE} ELSE BOOLEAN)
  /\ output_path \in (IF op = "crop_video" THEN {<<"out.mp4">>} ELSE OutputPaths)
  /\ seg_idx = 0 /\ temp_dir = "unset" /\ files = InitialFiles("posix") /\ temp_files = <<>>
  /\ MusicIdle

InitApplyMusic ==
  /\ op = "apply_music"
  /\ video_duration \in CropDurations
  /\ segments \in ApplyMusicSegmentLists
  /\ cleaned = <<>>
  /\ temp_clips = <<>>
  /\ CallIdle /\ StitchIdle /\ CropIdle /\ MusicIdle

InitStitch ==
  /\ op = "stitch_videos_together"
  /\ ValidatorIdle
  /\ pc = "stitch" /\ raised = NoError /\ returned = NoPath /\ cmds = <<>>
  /\ os_name \in {"posix", "nt"}
  /\ video_file_paths \in CallerPathLists
  /\ manifest = <<>> /\ manifest_exists = FALSE /\ output_size = Absent
  /\ video_exists = TRUE /\ output_path = <<"out.mp4">> /\ seg_idx = 0
  /\ temp_dir = "unset" /\ files = InitialFiles(os_name) /\ temp_files = <<>>
  /\ MusicIdle

InitMusic ==
  /\ op = "add_music_to_video"
  /\ segments = <<>> /\ cleaned = <<>> /\ temp_clips = <<>>
  /\ video_duration \in MusicVideoDurations
  /\ CallIdle /\ StitchIdle
  /\ video_exists \in BOOLEAN
  /\ output_path \in OutputPaths
  /\ seg_idx = 0 /\ temp_dir = "unset" /\ files = InitialFiles("posix") /\ temp_files = <<>>
  /\ request = NoRequest
  /\ music_tracks \in MusicTrackLists
  /\ video_volume \in VideoVolumes /\ music_volume \in MusicVolumes
  /\ validated_tracks = <<>> /\ filter_parts = <<>> /\ amix = NoMix

InitRequest ==
  /\ op = "stitch_ffmpeg_request"
  /\ request \in FfmpegRequests
  /\ ValidatorIdle /\ CallIdle /\ StitchIdle /\ CropIdle
  /\ music_tracks = <<>> /\ video_volume = VolumeUnit /\ music_volume = DefaultMusicVolume
  /\ validated_tracks = <<>> /\ filter_parts = <<>> /\ amix = NoMix

\* ---- app/video.py: calls of the validators ----
SanitizeSegments ==
  /\ op = "sanitize_segments" /\ pc = "start"
  /\ cleaned' = sanitize_segments(segments, video_duration)
  /\ pc' = "done"
  /\ UNCHANGED <<op, request, jobs_vars, registry_vars, raised, returned, cmds, segments, video_duration, temp_clips,
                 stitch_vars, crop_vars, music_vars>>

\* a caller validates again the list sanitize_segments returned
SanitizeAgain ==
  /\ op = "sanitize_segments" /\ pc = "done"
  /\ segments' = cleaned
  /\ cleaned' = sanitize_segments(cleaned, video_duration)
  /\ pc' = "revalidated"
  /\ UNCHANGED <<op, request, jobs_vars, registry_vars, raised, returned, cmds, video_duration, temp_clips,
                 stitch_vars, crop_vars, music_vars>>

ClampSegments ==
  /\ op = "_clamp_segments" /\ pc = "start"
  /\ cleaned' = _clamp_segments(segments, video_duration)
  /\ pc' = "done"
  /\ UNCHANGED <<op, request, jobs_vars, registry_vars, raised, returned, cmds, segments, video_duration, temp_clips,
                 stitch_vars, crop_vars, music_vars>>

\* final_clip.write_videofile(output_path): the file is written, or the
\* writer raises
WriteVideofile ==
  \E written \in BOOLEAN :
    IF written
    THEN /\ output_size' = MinValidSize + 1
         /\ returned' = ProcessedPath
         /\ raised' = raised
    ELSE /\ output_size' = Absent
         /\ returned' = NoPath
         /\ raised' = Err("OSError", "write_videofile failed")

\* crop_video: sanitize, refuse an empty survivor list, cut one clip per
\* surviving segment in list order, concatenate the clips in that order and
\* write the result
CropVideo ==
  /\ op = "crop_video" /\ pc = "start"
  /\ LET safe_segments == sanitize_segments(segments, video_duration)
     IN  /\ cleaned' = safe_segments
         /\ IF safe_segments = <<>>
            THEN /\ raised' = Err("ValueError", "No valid segments within duration")
                 /\ temp_clips' = <<>>
                 /\ UNCHANGED <<returned, output_size>>
            ELSE /\ temp_clips' = [k \in 1..Len(safe_segments) |->
                                     [start |-> safe_segments[k].start,
                                      end   |-> safe_segments[k].end]]
                 /\ WriteVideofile
  /\ pc' = "done"
  /\ UNCHANGED <<op, request, jobs_vars, registry_vars, cmds, segments, video_duration, os_name, video_file_paths, manifest,
                 manifest_exists, crop_vars, music_vars>>

\* except Exception as e: raise Exception(f"Error applying music to video: {e}")
WrapApplyMusic(e) ==
  IF e.type = "none" THEN e
  ELSE [e EXCEPT !.type = "Exception", !.wrapped = "Error applying music to video"]

\* apply_music: clamp, refuse an empty survivor list, lay each segment's song
\* under its clip in list order, concatenate and write the result; whatever is
\* raised on the way reaches the caller as a plain Exception
ApplyMusic ==
  /\ op = "apply_music" /\ pc = "start"
  /\ LET safe_segments == _clamp_segments(segments, video_duration)
         gone == {k \in 1..Len(safe_segments) : ~MusicFileExists(safe_segments[k].song_path)}
     IN  /\ cleaned' = safe_segments
         /\ IF safe_segments = <<>>
            THEN /\ raised' = WrapApplyMusic(Err("ValueError", "No valid segments within duration"))
                 /\ temp_clips' = <<>>
                 /\ UNCHANGED <<returned, output_size>>
            ELSE IF gone # {}
            THEN LET k == CHOOSE j \in gone : \A i \in gone : j <= i
                 IN  /\ raised' = WrapApplyMusic(Err("FileNotFoundError", "Music file not found"))
                     /\ temp_clips' = SubSeq(safe_segments, 1, k - 1)
                     /\ UNCHANGED <<returned, output_size>>
            ELSE /\ temp_clips' = safe_segments
                 /\ \E written \in BOOLEAN :
                      IF written
                      THEN /\ output_size' = MinValidSize + 1
                           /\ returned' = ProcessedPath
                           /\ raised' = raised
                      ELSE /\ output_size' = Absent
                           /\ returned' = NoPath
                           /\ raised' = WrapApplyMusic(Err("OSError", "write_videofile failed"))
  /\ pc' = "done"
  /\ UNCHANGED <<op, request, jobs_vars, registry_vars, cmds, segments, video_duration, os_name, video_file_paths, manifest,
                 manifest_exists, crop_vars, music_vars>>

\* ---- app/pipeline.py: crop_and_stitch_video_segments ----
IsCrop == op = "crop_and_stitch_video_segments"

\* the validation loop: the first segment it refuses (0 if none)
FirstInvalid(segs) ==
  LET bad == {k \in 1..Len(segs) : segs[k].start < 0 \/ segs[k].end <= segs[k].start}
  IN  IF bad = {} THEN 0 ELSE CHOOSE k \in bad : \A j \in bad : k <= j

SegmentError(segs, k) ==
  [Err("ValueError",
       IF segs[k].start < 0 THEN "start time cannot be negative"
       ELSE "end time must be greater than start time")
     EXCEPT !.index = k, !.start = segs[k].start]

\* except Exception as e: raise RuntimeError(f"Video processing failed: {str(e)}")
WrapCrop(e) == [e EXCEPT !.type = "RuntimeError", !.wrapped = "Video processing failed"]
\* except Exception as e: raise RuntimeError(f"Video stitching failed: {str(e)}")
WrapStitch(e) == [e EXCEPT !.type = "RuntimeError", !.wrapped = "Video stitching failed"]

\* the finally block: unlink every file of temp_files, then rmdir the
\* directory, which the OS refuses while a file is left in it
UnlinkTempFiles(fs, tf) ==
  [f \in DOMAIN fs |-> IF \E k \in 1..Len(tf) : tf[k] = f THEN Absent ELSE fs[f]]
DirAfterRmdir(fs) ==
  IF \A f \in SegmentPaths : fs[f] = Absent THEN "removed" ELSE "present"

\* how crop_and_stitch_video_segments is left from inside its try block:
\* with the path ret, or with the exception e (NoError if none)
CropExit(ret, e, fs) ==
  /\ raised' = (IF e.type = "none" THEN NoError ELSE WrapCrop(e))
  /\ returned' = (IF e.type = "none" THEN ret ELSE NoPath)
  /\ files' = UnlinkTempFiles(fs, temp_files)
  /\ temp_dir' = DirAfterRmdir(files')
  /\ pc' = "done"

\* input checks and the validation loop, before the try block
CropValidate ==
  /\ IsCrop /\ pc = "start"
  /\ LET e == IF ~video_exists THEN Err("ValueError", "Input video file not found")
              ELSE IF segments = <<>> THEN Err("ValueError", "No segments provided for cropping")
              ELSE IF output_path = <<>> THEN Err("ValueError", "Output path is required")
              ELSE IF FirstInvalid(segments) # 0
                   THEN SegmentError(segments, FirstInvalid(segments))
              ELSE NoError
     IN  /\ raised' = e
         /\ pc' = IF e.type = "none" THEN "probe" ELSE "done"
  /\ UNCHANGED <<op, request, jobs_vars, registry_vars, returned, cmds, validator_vars, stitch_vars, crop_vars, music_vars>>

\* mkdtemp, then ffprobe, whose result and failure are both ignored
CropProbe ==
  /\ IsCrop /\ pc = "probe"
  /\ \E exit \in ExitCodes :
       cmds' = Append(cmds, Cmd("ffprobe", "probe", 0, -1, -1, exit, Unchecked))
  /\ temp_dir' = "present"
  /\ seg_idx' = 1
  /\ pc' = "fast"
  /\ UNCHANGED <<op, request, jobs_vars, registry_vars, raised, returned, validator_vars, stitch_vars, music_vars,
                 video_exists, output_path, files, temp_files>>

\* (a loop that stops after its first segment)
AfterFirstSegment ==
  /\ seg_idx' = seg_idx
  /\ pc' = "stitch"
  /\ video_file_paths' = temp_files'

\* after segment seg_idx was accepted: the next segment, or the call of
\* stitch_videos_together(temp_files, abs_output_path)
AfterSegment ==
  IF seg_idx < Len(segments)
  THEN /\ seg_idx' = seg_idx + 1
       /\ pc' = "fast"
       /\ UNCHANGED video_file_paths
  ELSE /\ seg_idx' = seg_idx
       /\ pc' = "stitch"
       /\ video_file_paths' = temp_files'

\* (a command that passes the end time where the length is expected)
SegmentDurationToEnd(seg) == seg.end

\* duration = end - start, the value given to "-t"
SegmentDuration(seg) == seg.end - seg.start

\* the fast command for segment seg_idx, and the check of what it left
ExtractFast ==
  /\ IsCrop /\ pc = "fast"
  /\ LET start    == segments[seg_idx].start
         duration == SegmentDuration(segments[seg_idx])
         temp_segment_path == SegmentPath(seg_idx)
     IN  \E exit \in ExitCodes, size \in FileOutcomes :
           /\ cmds' = Append(cmds, Cmd("ffmpeg_extract", "fast", seg_idx, start, duration, exit, size))
           /\ files' = [files EXCEPT ![temp_segment_path] = size]
           /\ IF FastAccepted(exit, size)
              THEN /\ temp_files' = Append(temp_files, temp_segment_path)
                   /\ AfterSegment
              ELSE /\ pc' = "fallback"
                   /\ UNCHANGED <<temp_files, seg_idx, video_file_paths>>
  /\ UNCHANGED <<op, request, jobs_vars, registry_vars, raised, returned, validator_vars, os_name, manifest, music_vars,
                 manifest_exists, output_size, video_exists, output_path, temp_dir>>

\* the fallback command for segment seg_idx, and the check of what it left
ExtractFallback ==
  /\ IsCrop /\ pc = "fallback"
  /\ LET start    == segments[seg_idx].start
         duration == SegmentDuration(segments[seg_idx])
         temp_segment_path == SegmentPath(seg_idx)
     IN  \E exit \in ExitCodes, size \in FileOutcomes :
           /\ cmds' = Append(cmds, Cmd("ffmpeg_extract", "fallback", seg_idx, start, duration, exit, size))
           /\ IF exit # 0
              THEN /\ CropExit(NoPath,
                               [Err("RuntimeError", "Segment cropping failed")
                                  EXCEPT !.index = seg_idx, !.start = start,
                                         !.duration = duration, !.diag = TRUE],
                               [files EXCEPT ![temp_segment_path] = size])
                   /\ UNCHANGED <<temp_files, seg_idx, video_file_paths>>
              ELSE IF size = Absent
              THEN /\ CropExit(NoPath,
                               \* the message names temp_segment_path, hence the index
                               [Err("RuntimeError", "FFmpeg completed but segment file was not created")
                                  EXCEPT !.index = seg_idx],
                               [files EXCEPT ![temp_segment_path] = size])
                   /\ UNCHANGED <<temp_files, seg_idx, video_file_paths>>
              ELSE /\ files' = [files EXCEPT ![temp_segment_path] = size]
                   /\ temp_files' = Append(temp_files, temp_segment_path)
                   /\ AfterSegment
                   /\ UNCHANGED <<raised, returned, temp_dir>>
  /\ UNCHANGED <<op, request, jobs_vars, registry_vars, validator_vars, os_name, manifest, manifest_exists, output_size,
                 video_exists, output_path, music_vars>>

\* ---- app/pipeline.py: stitch_videos_together ----
InStitch == op \in {"crop_and_stitch_video_segments", "stitch_videos_together"}

\* the output path stitch_videos_together was given
StitchOutputPath == IF IsCrop THEN AbsPath(os_name, output_path) ELSE output_path

\* the validation loop: the first input that does not exist (0 if none)
FirstMissing(os, paths, fs) ==
  LET gone == {k \in 1..Len(paths) : fs[AbsPath(os, paths[k])] = Absent}
  IN  IF gone = {} THEN 0 ELSE CHOOSE k \in gone : \A j \in gone : k <= j

NormalizedPaths(os, paths) == [k \in 1..Len(paths) |-> AbsPath(os, paths[k])]

\* how stitch_videos_together is left: with the path ret or the exception e,
\* the output file holding out bytes; its caller crop_and_stitch_video_segments
\* then checks the output and leaves through its own handlers
StitchExit(ret, e, out) ==
  /\ output_size' = out
  /\ IF IsCrop
     THEN CropExit(ret,
                   IF e.type = "none" /\ out = Absent
                   THEN Err("RuntimeError", "Final stitched video was not created")
                   ELSE e,
                   files)
     ELSE /\ raised' = e
          /\ returned' = (IF e.type = "none" THEN ret ELSE NoPath)
          /\ pc' = "done"
          /\ UNCHANGED <<files, temp_dir>>

\* (a test that never takes the copy branch)
NeverSingleInput(paths) == FALSE

\* if len(video_file_paths) == 1: the list is copied, not concatenated
SingleInput(paths) == Len(paths) = 1

\* the checks, the single-input copy, the validation loop and the writing of
\* the concat list
StitchBegin ==
  /\ InStitch /\ pc = "stitch"
  /\ IF video_file_paths = <<>>
     THEN /\ StitchExit(NoPath, Err("ValueError", "No video files provided for stitching"),
                        output_size)
          /\ UNCHANGED <<manifest, manifest_exists>>
     ELSE IF SingleInput(video_file_paths)
     THEN LET src == AbsPath(os_name, video_file_paths[1])
          IN  /\ IF files[src] = Absent
                 THEN StitchExit(NoPath, Err("FileNotFoundError", "No such file or directory"),
                                 output_size)
                 ELSE StitchExit(StitchOutputPath, NoError, files[src])
              /\ UNCHANGED <<manifest, manifest_exists>>
     ELSE LET k == FirstMissing(os_name, video_file_paths, files)
          IN  IF k # 0
              THEN /\ StitchExit(NoPath,
                                 [Err("ValueError", "Video file not found") EXCEPT !.index = k],
                                 output_size)
                   /\ UNCHANGED <<manifest, manifest_exists>>
              ELSE /\ manifest' = WriteManifest(os_name, NormalizedPaths(os_name, video_file_paths))
                   /\ manifest_exists' = TRUE
                   /\ pc' = "concat_fast"
                   /\ UNCHANGED <<raised, returned, output_size, files, temp_dir>>
  /\ UNCHANGED <<op, request, jobs_vars, registry_vars, cmds, validator_vars, os_name, video_file_paths, music_vars,
                 video_exists, output_path, seg_idx, temp_files>>

\* the stream-copy concatenation, and the check of what it left
ConcatFast ==
  /\ InStitch /\ pc = "concat_fast"
  /\ \E exit \in ExitCodes, size \in FileOutcomes :
       /\ cmds' = Append(cmds, Cmd("ffmpeg_concat", "fast", 0, -1, -1, exit, size))
       /\ IF FastAccepted(exit, size)
          THEN /\ StitchExit(AbsPath(os_name, StitchOutputPath), NoError, size)
               /\ manifest_exists' = FALSE
          ELSE /\ output_size' = size
               /\ pc' = "concat_fallback"
               /\ UNCHANGED <<raised, returned, files, temp_dir, manifest_exists>>
  /\ UNCHANGED <<op, request, jobs_vars, registry_vars, validator_vars, os_name, video_file_paths, manifest, music_vars,
                 video_exists, output_path, seg_idx, temp_files>>

\* (a check that takes the output for granted)
OutputCreatedUnchecked(size) == TRUE

\* os.path.exists(abs_output_path) after the fallback concatenation
OutputCreated(size) == size # Absent

\* the re-encoding concatenation, and the check of what it left
ConcatFallback ==
  /\ InStitch /\ pc = "concat_fallback"
  /\ \E exit \in ExitCodes, size \in FileOutcomes :
       /\ cmds' = Append(cmds, Cmd("ffmpeg_concat", "fallback", 0, -1, -1, exit, size))
       /\ IF exit # 0
          THEN StitchExit(NoPath,
                          WrapStitch([Err("RuntimeError", "Video stitching failed")
                                        EXCEPT !.diag = TRUE]),
                          size)
          ELSE IF ~OutputCreated(size)
          THEN StitchExit(NoPath,
                          WrapStitch(Err("RuntimeError",
                                         "FFmpeg completed but output file was not created")),
                          size)
          ELSE StitchExit(AbsPath(os_name, StitchOutputPath), NoError, size)
       /\ manifest_exists' = FALSE
  /\ UNCHANGED <<op, request, jobs_vars, registry_vars, validator_vars, os_name, video_file_paths, manifest, music_vars,
                 video_exists, output_path, seg_idx, temp_files>>

\* ---- app/pipeline.py: add_music_to_video ----
IsMusic == op = "add_music_to_video"

\* the validation loop: the exception of the first track it refuses
TrackError(t, k) ==
  IF ~MusicFileExists(t[k].path)
  THEN [Err("ValueError", "Audio file not found") EXCEPT !.index = k]
  ELSE IF t[k].start < 0
  THEN [Err("ValueError", "start time cannot be negative") EXCEPT !.index = k, !.start = t[k].start]
  ELSE IF t[k].end <= t[k].start
  THEN [Err("ValueError", "end time must be greater than start time")
          EXCEPT !.index = k, !.start = t[k].start]
  ELSE NoError

FirstBadTrack(t) ==
  LET bad == {k \in 1..Len(t) : TrackError(t, k).type # "none"}
  IN  IF bad = {} THEN 0 ELSE CHOOSE k \in bad : \A j \in bad : k <= j

\* validated_tracks.append({'path', 'start', 'end', 'duration'})
ValidatedTrack(tr) ==
  [path |-> tr.path, start |-> tr.start, end |-> tr.end, duration |-> tr.end - tr.start]

\* int(track['start'] * 1000), the start in whole milliseconds
StartDelayMs(start) == (start * MsPerSecond) \div TicksPerSecond

Stage(f, arg) == [f |-> f, arg |-> arg]

\* "[0:a]volume={video_volume}[original_audio]"
OriginalAudioFilter(vv) ==
  [input |-> 0, stages |-> <<Stage("volume", vv)>>, label |-> "original_audio"]

\* the chain of music track i (0-based) on input i + 1
TrackFilter(i, track, mv) ==
  LET start_delay_ms == StartDelayMs(track.start)
      duration_s     == track.duration
      end_time       == duration_s + track.start
  IN  [input  |-> i + 1,
       stages |-> IF track.start > 0
                  THEN <<Stage("volume", mv), Stage("adelay", start_delay_ms),
                         Stage("atrim", end_time)>>
                  ELSE <<Stage("volume", mv), Stage("atrim", duration_s)>>,
       label  |-> "music"]

BuildFilterParts(tracks, vv, mv) ==
  <<OriginalAudioFilter(vv)>> \o [k \in 1..Len(tracks) |-> TrackFilter(k - 1, tracks[k], mv)]

\* (a mix that ends with its shortest input)
MixFilterShortest(audio_inputs) == [inputs |-> Len(audio_inputs), duration |-> "shortest"]

\* "amix=inputs={num_inputs}:duration=first:dropout_transition=0"
MixFilter(audio_inputs) == [inputs |-> Len(audio_inputs), duration |-> "first"]

\* the input checks and the validation loop, before any command is built
MusicValidate ==
  /\ IsMusic /\ pc = "start"
  /\ LET e == IF ~video_exists THEN Err("ValueError", "Input video file not found")
              ELSE IF music_tracks = <<>> THEN Err("ValueError", "No music tracks provided")
              ELSE IF output_path = <<>> THEN Err("ValueError", "Output path is required")
              ELSE IF FirstBadTrack(music_tracks) # 0
                   THEN TrackError(music_tracks, FirstBadTrack(music_tracks))
              ELSE NoError
     IN  /\ raised' = e
         /\ pc' = IF e.type = "none" THEN "mix" ELSE "done"
         /\ validated_tracks' =
              IF e.type = "none"
              THEN [k \in 1..Len(music_tracks) |-> ValidatedTrack(music_tracks[k])]
              ELSE validated_tracks
  /\ UNCHANGED <<op, request, jobs_vars, registry_vars, returned, cmds, validator_vars, stitch_vars, crop_vars,
                 music_tracks, video_volume, music_volume, filter_parts, amix>>

\* the filter graph, the one engine run and the check of what it left
MusicMix ==
  /\ IsMusic /\ pc = "mix"
  /\ filter_parts' = BuildFilterParts(validated_tracks, video_volume, music_volume)
  /\ amix' = MixFilter(filter_parts')
  /\ \E exit \in ExitCodes, size \in FileOutcomes :
       /\ cmds' = Append(cmds, Cmd("ffmpeg_mix", "single", 0, -1, -1, exit, size))
       /\ output_size' = size
       /\ IF exit # 0
          THEN /\ raised' = [Err("RuntimeError", "Audio mixing failed") EXCEPT !.diag = TRUE]
               /\ returned' = NoPath
          ELSE IF size = Absent
          THEN /\ raised' = [Err("RuntimeError", "FFmpeg completed but output file was not created")
                               EXCEPT !.wrapped = "Audio processing failed"]
               /\ returned' = NoPath
          ELSE /\ raised' = NoError
               /\ returned' = AbsPath(os_name, output_path)
  /\ pc' = "done"
  /\ UNCHANGED <<op, request, jobs_vars, registry_vars, validator_vars, os_name, video_file_paths, manifest, manifest_exists,
                 crop_vars, music_tracks, video_volume, music_volume, validated_tracks>>

\* ---- app/ffmpeg_stitch.py: stitch_ffmpeg_request ----
IsRequest == op = "stitch_ffmpeg_request"

\* (a check that looks at the first segment only)
OnlyFirstInvalidType(input_segments) ==
  IF input_segments # <<>> /\ input_segments[1].file_type \notin {"audio", "video"}
  THEN 1 ELSE 0

\* build_input_stream refuses a file_type that is neither 'audio' nor 'video':
\* the first such segment (0 if none)
FirstInvalidType(input_segments) ==
  LET bad == {k \in 1..Len(input_segments) :
                input_segments[k].file_type \notin {"audio", "video"}}
  IN  IF bad = {} THEN 0 ELSE CHOOSE k \in bad : \A j \in bad : k <= j

SecondsPerHour == 3600
\* _time_to_seconds on a "HH:MM:SS" string
_time_to_seconds(t) == t.hh * SecondsPerHour + t.mm * SecondsPerMinute + t.ss

\* the audio filters of a music segment (no fades are requested): a volume
\* filter unless the volume is unset, 0 or 1.0, then an adelay of
\* int(start_seconds * 1000) ms if start_time > 0
AudioFilters(segment) ==
  LET start_seconds == _time_to_seconds(segment.start_time)
  IN  (IF segment.volume # 0 /\ segment.volume # VolumeUnit
       THEN <<Stage("volume", segment.volume)>> ELSE <<>>)
      \o (IF start_seconds > 0
          THEN <<Stage("adelay", start_seconds * MsPerSecond)>> ELSE <<>>)

\* the audio stream segment k of the request contributes (<<>> if none):
\* build_input_stream's stream for an audio segment, the input's own audio
\* for a video segment whose volume is > 0
AudioStreamOf(input_segments, k) ==
  LET segment == input_segments[k]
  IN  IF segment.file_type = "audio"
      THEN <<[input |-> k, stages |-> AudioFilters(segment), label |-> "audio"]>>
      ELSE IF segment.volume > 0
      THEN <<[input |-> k,
              stages |-> IF segment.volume # VolumeUnit
                         THEN <<Stage("volume", segment.volume)>> ELSE <<>>,
              label |-> "video_audio"]>>
      ELSE <<>>

\* audio_streams: the streams of all segments, in request order
RECURSIVE AudioStreams(_, _)
AudioStreams(input_segments, k) ==
  IF k > Len(input_segments) THEN <<>>
  ELSE AudioStreamOf(input_segments, k) \o AudioStreams(input_segments, k + 1)

\* processed_streams: stream i is filtered by request.input_segments[i] when
\* that segment is an audio segment
ProcessedStreams(input_segments) ==
  LET audio_streams == AudioStreams(input_segments, 1)
  IN  [i \in 1..Len(audio_streams) |->
         IF input_segments[i].file_type = "audio"
         THEN [audio_streams[i] EXCEPT !.stages = @ \o AudioFilters(input_segments[i])]
         ELSE audio_streams[i]]

\* amix over the processed streams, when there are more than one
RequestMix(processed_streams) ==
  IF Len(processed_streams) > 1
  THEN [inputs |-> Len(processed_streams), duration |-> "longest"]
  ELSE NoMix

\* the streams are built and the output is composed, before the engine runs
RequestBuild ==
  /\ IsRequest /\ pc = "start"
  /\ LET k == FirstInvalidType(request.input_segments)
         e == IF k # 0 THEN [Err("ValueError", "Invalid file type") EXCEPT !.index = k]
              ELSE IF request.input_segments = <<>>
              THEN Err("RuntimeError", "No input streams available")
              ELSE NoError
     IN  /\ raised' = e
         /\ pc' = IF e.type = "none" THEN "run" ELSE "done"
         /\ filter_parts' = IF e.type = "none" THEN ProcessedStreams(request.input_segments)
                             ELSE filter_parts
         /\ amix' = IF e.type = "none" THEN RequestMix(filter_parts') ELSE amix
  /\ UNCHANGED <<op, request, jobs_vars, registry_vars, returned, cmds, validator_vars, stitch_vars, crop_vars,
                 music_tracks, video_volume, music_volume, validated_tracks>>

\* output.run(): the engine exits non-zero when it cannot open an input; the
\* function returns request.output_file unless ffmpeg.Error was raised, and
\* does not look at the output file
RequestRun ==
  /\ IsRequest /\ pc = "run"
  /\ LET missing == \E k \in 1..Len(request.input_segments) :
                      ~InputFileExists(request.input_segments[k].file_path)
     IN  \E exit \in (IF missing THEN ExitCodes \ {0} ELSE ExitCodes), size \in FileOutcomes :
           /\ cmds' = Append(cmds, Cmd("ffmpeg_request", "single", 0, -1, -1, exit, Unchecked))
           /\ output_size' = size
           /\ IF exit = 0
              THEN /\ returned' = request.output_file
                   /\ raised' = raised
              ELSE /\ returned' = NoPath
                   /\ raised' = [Err("RuntimeError", "FFmpeg failed") EXCEPT !.diag = TRUE]
  /\ pc' = "done"
  /\ UNCHANGED <<op, request, jobs_vars, registry_vars, validator_vars, os_name, video_file_paths, manifest,
                 manifest_exists, crop_vars, music_vars>>

\* ---- what the engine does with an extraction and a concatenation ----
\* the segment extracted into a segment file
SegmentOfFile(f) == CHOOSE k \in 1..(MaxSegs + 1) : SegmentPath(k) = f

\* "-ss start -i source -t duration": the seconds of media written, which stop
\* where the source stops
Extracted(start, duration, source_seconds) == Max(0, Min(duration, source_seconds - start))

\* the last extraction launched for segment k
ExtractionOf(k) ==
  LET ns == {n \in 1..Len(cmds) : cmds[n].tool = "ffmpeg_extract" /\ cmds[n].index = k}
  IN  cmds[CHOOSE n \in ns : \A m \in ns : m <= n]

\* the seconds of media in segment file f
ClipSeconds(f) ==
  LET c == ExtractionOf(SegmentOfFile(f))
  IN  Extracted(c.start, c.duration, video_duration)

\* a concatenation (or the copy of a single clip) lasts as long as its inputs
\* together
RECURSIVE ConcatSeconds(_)
ConcatSeconds(paths) ==
  IF paths = <<>> THEN 0 ELSE ClipSeconds(Head(paths)) + ConcatSeconds(Tail(paths))

\* ---- what the engine does with the filter graph ----
\* The audio a chain lets through, as the interval [from, to) of output time:
\* adelay shifts it by its milliseconds, atrim=0:t cuts everything after t.
RECURSIVE ApplyStages(_, _)
ApplyStages(stages, iv) ==
  IF stages = <<>> THEN iv
  ELSE LET st == Head(stages)
           nx == IF st.f = "adelay"
                 THEN [from |-> iv.from + st.arg * TicksPerMs, to |-> iv.to + st.arg * TicksPerMs]
                 ELSE IF st.f = "atrim"
                 THEN [from |-> Min(iv.from, st.arg), to |-> Min(iv.to, st.arg)]
                 ELSE iv
       IN  ApplyStages(Tail(stages), nx)

\* the interval chain k (1 is the original audio) contributes
Contribution(k) ==
  ApplyStages(filter_parts[k].stages,
              [from |-> 0,
               to   |-> IF k = 1 THEN video_duration
                        ELSE MusicFileLength(validated_tracks[k - 1].path)])

\* the gain of chain k: the product of its volume stages, in VolumeUnit
ChainGain(k) ==
  LET st == filter_parts[k].stages
      vs == {j \in 1..Len(st) : st[j].f = "volume"}
  IN  IF vs = {} THEN VolumeUnit ELSE st[CHOOSE j \in vs : TRUE].arg

\* amix's output lasts as long as its first input (duration=first), its
\* shortest input (duration=shortest) or its longest input (duration=longest)
MixedDuration ==
  LET ends == {Contribution(k).to : k \in 1..Len(filter_parts)}
  IN  IF amix.duration = "first" THEN Contribution(1).to
      ELSE IF amix.duration = "shortest" THEN CHOOSE m \in ends : \A e \in ends : m <= e
      ELSE CHOOSE m \in ends : \A e \in ends : e <= m

\* "-map 0:v -map [mixed_audio] -c:v copy", without -shortest: the output holds
\* the whole video stream and the mixed audio, and lasts as long as the longer
OutputDuration == Max(video_duration, MixedDuration)

\* ---- app/pipeline.py, app/main.py: the job pipelines and delete_job ----
SingleOps == {"upload_video_pipeline", "process_video_pipeline", "main.process_video_pipeline"}
MultiOps == {"process_multi_video_pipeline", "main.process_multi_video_pipeline"}
\* the pipelines of app/main.py, which look the job up in the registry at
\* every access; those of app/pipeline.py look it up once and keep the object
MainOps == {"main.process_video_pipeline", "main.process_multi_video_pipeline"}
IsPipeline == op \in SingleOps \cup MultiOps

\* JobStatus
UPLOADING == "uploading"
INDEXING == "indexing"
ANALYZING == "analyzing"
PROCESSING == "processing"
COMPLETED == "completed"
FAILED == "failed"

JobId == "job_1"
MaxVideos == 3
VideoCounts == 2..MaxVideos
UploadedPath == <<"uploads", "/", "job_1_video.mp4">>
ProcessedOutputPath == <<"..", "/", "processed_videos", "/", "job_1_processed.mp4">>
PipelineFiles ==
  [f \in {UploadedPath, ProcessedOutputPath} |-> IF f = UploadedPath THEN InputSize ELSE Absent]

\* the JobInfo / MultiVideoJobInfo upload_video registers; sentiment_analysis
\* and processed_video are "none" until they are set
JobInfo(video_count) ==
  [status |-> UPLOADING, twelve_labs_video_id |-> FALSE, sentiment_analysis |-> "none",
   processed_video |-> "none", video_count |-> video_count, video_results |-> <<>>]
NoJobInfo == [status |-> "none"]
RegistryIdle == job_status = {} /\ job = NoJobInfo /\ response = "none"

\* what analyze_sentiment_with_twelvelabs returns: success with the data and
\* the exported file, success with the data and no exported file, or failure
SentimentResults ==
  {[success |-> TRUE, file_path |-> TRUE], [success |-> TRUE, file_path |-> FALSE],
   [success |-> FALSE, file_path |-> FALSE]}

Registered == JobId \in job_status
\* job_status[job_id] for an id without entry; in main.py the except block
\* looks the id up again, so the KeyError leaves the pipeline
KeyError == Err("KeyError", "job_id")
\* the except block of a pipeline, entered with the job object as j
PipelineFailed(j) ==
  /\ pc' = "done"
  /\ IF op \in MainOps /\ ~Registered
     THEN job' = j /\ raised' = KeyError
     ELSE job' = [j EXCEPT !.status = FAILED] /\ raised' = raised

\* the lookup of the job and the first status write
PipelineStart ==
  /\ IsPipeline /\ pc = "start"
  /\ IF ~Registered
     THEN /\ raised' = KeyError
          /\ pc' = "done"
          /\ job' = job
     ELSE /\ job' = [job EXCEPT !.status = INDEXING]
          /\ pc' = IF op \in MultiOps THEN "videos" ELSE "upload"
          /\ raised' = raised
  /\ UNCHANGED <<op, request, jobs_vars, returned, cmds, validator_vars, stitch_vars,
                 crop_vars, music_vars, job_status, response>>

\* upload_video_to_twelvelabs(file_path), which fails without the file, and
\* the writes of the video id and of ANALYZING
PipelineUpload ==
  /\ op \in SingleOps /\ pc = "upload"
  /\ \E video_id \in (IF files[UploadedPath] = Absent THEN {FALSE} ELSE BOOLEAN) :
       IF ~video_id \/ (op \in MainOps /\ ~Registered)
       THEN PipelineFailed(job)
       ELSE /\ job' = [job EXCEPT !.twelve_labs_video_id = TRUE, !.status = ANALYZING]
            /\ pc' = "analyze"
            /\ raised' = raised
  /\ UNCHANGED <<op, request, jobs_vars, returned, cmds, validator_vars, stitch_vars,
                 crop_vars, music_vars, job_status, response>>

\* the sentiment analysis and what each pipeline does with its result, up to
\* its next long call: upload_video_pipeline ends here
PipelineAnalyze ==
  /\ op \in SingleOps /\ pc = "analyze"
  /\ \E sentiment_result \in SentimentResults, music_found \in BOOLEAN :
       LET analyzed == [job EXCEPT !.sentiment_analysis =
                          IF sentiment_result.success THEN "success" ELSE "failed"]
       IN  IF op \in MainOps
           THEN IF ~Registered THEN PipelineFailed(job)
                ELSE IF ~sentiment_result.success THEN PipelineFailed(analyzed)
                ELSE /\ job' = [analyzed EXCEPT !.status = PROCESSING]
                     /\ pc' = "process"
                     /\ raised' = raised
           ELSE IF ~sentiment_result.success THEN PipelineFailed(analyzed)
                \* without an exported file music_file_paths is never bound
                ELSE IF ~sentiment_result.file_path THEN PipelineFailed(analyzed)
                ELSE IF ~music_found THEN PipelineFailed(analyzed)
                ELSE /\ job' = analyzed
                     /\ pc' = IF op = "upload_video_pipeline" THEN "done" ELSE "stitch"
                     /\ raised' = raised
  /\ UNCHANGED <<op, request, jobs_vars, returned, cmds, validator_vars, stitch_vars,
                 crop_vars, music_vars, job_status, response>>

\* main.py: the request is built (which may raise), process_video_segments
\* reports success or failure, and the result and the final status are written
PipelineProcess ==
  /\ op = "main.process_video_pipeline" /\ pc = "process"
  /\ \E outcome \in {"raised", "failed", "success"} :
       IF ~Registered \/ outcome = "raised" THEN PipelineFailed(job)
       ELSE IF outcome = "failed"
       THEN PipelineFailed([job EXCEPT !.processed_video = "error"])
       ELSE /\ job' = [job EXCEPT !.processed_video = "output", !.status = COMPLETED]
            /\ pc' = "done"
            /\ raised' = raised
  /\ UNCHANGED <<op, request, jobs_vars, returned, cmds, validator_vars, stitch_vars,
                 crop_vars, music_vars, job_status, response>>

\* pipeline.py: stitch_ffmpeg_request(ffmpeg_request) and the final status
PipelineStitch ==
  /\ op = "process_video_pipeline" /\ pc = "stitch"
  /\ \E exit \in ExitCodes :
       IF exit # 0
       THEN PipelineFailed(job) /\ UNCHANGED files
       ELSE /\ job' = [job EXCEPT !.processed_video = "output", !.status = COMPLETED]
            /\ files' = [files EXCEPT ![ProcessedOutputPath] = MinValidSize + 1]
            /\ pc' = "done"
            /\ raised' = raised
  /\ UNCHANGED <<op, request, jobs_vars, returned, cmds, validator_vars, stitch_vars,
                 music_vars, job_status, response,
                 video_exists, output_path, seg_idx, temp_dir, temp_files>>

\* one turn of the loop over job.video_files: process_single_video_in_batch
\* reports success or failure and the result is appended
PipelineVideo ==
  /\ op \in MultiOps /\ pc = "videos"
  /\ \E success \in BOOLEAN :
       job' = [job EXCEPT !.video_results = Append(@, success)]
  /\ pc' = IF Len(job.video_results) + 1 < job.video_count THEN "videos" ELSE "aggregate"
  /\ UNCHANGED <<op, request, jobs_vars, raised, returned, cmds, validator_vars, stitch_vars,
                 crop_vars, music_vars, job_status, response>>

\* pipeline.py: if len(successful_videos) == 0
NoneSucceeded(video_results) == \A k \in 1..Len(video_results) : ~video_results[k]

\* after the loop: pipeline.py raises when no video succeeded; then
\* PROCESSING, the aggregated request, COMPLETED
PipelineAggregate ==
  /\ op \in MultiOps /\ pc = "aggregate"
  /\ IF op \notin MainOps /\ NoneSucceeded(job.video_results)
     THEN PipelineFailed(job)
     ELSE /\ job' = [job EXCEPT !.status = COMPLETED]
          /\ pc' = "done"
          /\ raised' = raised
  /\ UNCHANGED <<op, request, jobs_vars, returned, cmds, validator_vars, stitch_vars,
                 crop_vars, music_vars, job_status, response>>

\* DELETE /api/video/{job_id}, at any moment of a single-video job: 404
\* without entry; else the uploaded file and the recorded output are removed
\* and the entry is deleted
delete_job ==
  /\ op \in SingleOps /\ response # "404"
  /\ IF ~Registered
     THEN /\ response' = "404"
          /\ UNCHANGED <<job_status, files>>
     ELSE /\ files' = [f \in DOMAIN files |->
                        IF f = UploadedPath THEN Absent
                        ELSE IF f = ProcessedOutputPath /\ job.processed_video = "output"
                             THEN Absent
                        ELSE files[f]]
          /\ job_status' = job_status \ {JobId}
          /\ response' = "deleted"
  /\ UNCHANGED <<op, pc, request, jobs_vars, raised, returned, cmds, validator_vars,
                 stitch_vars, music_vars, job,
                 video_exists, output_path, seg_idx, temp_dir, temp_files>>

\* ---- app/pipeline.py: crop_and_stitch_video_segments run by several jobs ----
IsConcurrent == op = "concurrent_jobs"
Jobs == {"job_a", "job_b"}
\* the directories mkdtemp(prefix="video_segments_") can name, the segment
\* files inside one, and the files NamedTemporaryFile(suffix='.txt',
\* dir=os.getcwd()) can name
JobTempDirs == {TempDir \o <<"k3x">>, TempDir \o <<"q9z">>}
JobSegmentPath(dir, i) == dir \o <<"/", "segment_", SegmentNumber[i], ".mp4">>
JobListPaths == {<<"cwd", "/", "tmpa", ".txt">>, <<"cwd", "/", "tmpb", ".txt">>}
JobPaths ==
  JobTempDirs \cup JobListPaths
    \cup {JobSegmentPath(d, i) : d \in JobTempDirs, i \in 1..MaxSegs}
\* every job is given the same source and the same list of valid segments
JobSegmentLists == {[k \in 1..n |-> [start |-> 0, end |-> 5]] : n \in 1..MaxSegs}

NoJob == "none"
IdleWorker ==
  [pc |-> "start", temp_dir |-> NoPath, seg_idx |-> 0, temp_files |-> <<>>,
   temp_list_path |-> NoPath]
NoTouch == [job |-> NoJob, creators |-> {}]
\* no job exists while another operation is called
JobsIdle == workers = <<>> /\ disk = <<>> /\ touched = NoTouch

InitConcurrent ==
  /\ op = "concurrent_jobs"
  /\ segments \in JobSegmentLists
  /\ video_duration \in CropDurations
  /\ cleaned = <<>> /\ temp_clips = <<>>
  /\ CallIdle /\ StitchIdle /\ CropIdle /\ MusicIdle /\ RegistryIdle
  /\ workers = [j \in Jobs |-> IdleWorker]
  /\ disk = [p \in JobPaths |-> NoJob]
  /\ touched = NoTouch

\* (a creation call that takes a name whether or not it is in use)
NotExclusive(candidates, d) == candidates
\* mkdtemp and NamedTemporaryFile create under a name nothing exists under
Exclusive(candidates, d) == {p \in candidates : d[p] = NoJob}

\* job j creates or overwrites the file at p, or finds it already there
Written(d, j, p) == IF d[p] = NoJob THEN [d EXCEPT ![p] = j] ELSE d
Removed(d, paths) == [p \in DOMAIN d |-> IF p \in paths THEN NoJob ELSE d[p]]
\* what an engine run that was to write p leaves there
EngineWrote(d, j, p, size) == IF size = Absent THEN Removed(d, {p}) ELSE Written(d, j, p)
Touch(j, paths) == touched' = [job |-> j, creators |-> {disk[p] : p \in paths}]
Range(seq) == {seq[k] : k \in 1..Len(seq)}

\* the input checks pass; tempfile.mkdtemp creates the job's directory
JobMkdtemp(j) ==
  /\ IsConcurrent /\ workers[j].pc = "start"
  /\ \E dir \in Exclusive(JobTempDirs, disk) :
       /\ disk' = Written(disk, j, dir)
       /\ workers' = [workers EXCEPT ![j].temp_dir = dir, ![j].seg_idx = 1, ![j].pc = "fast"]
       /\ Touch(j, {dir})
  /\ UNCHANGED <<op, pc, raised, returned, cmds, validator_vars, stitch_vars, crop_vars,
                 music_vars, request, registry_vars>>

\* the worker after segment seg_idx was accepted under path p
JobAccepted(w, p) ==
  [w EXCEPT !.temp_files = Append(@, p),
            !.seg_idx = IF w.seg_idx < Len(segments) THEN w.seg_idx + 1 ELSE w.seg_idx,
            !.pc = IF w.seg_idx < Len(segments) THEN "fast" ELSE "stitch"]

\* the fast command of job j for its segment seg_idx
JobExtractFast(j) ==
  /\ IsConcurrent /\ workers[j].pc = "fast"
  /\ LET w == workers[j]
         temp_segment_path == JobSegmentPath(w.temp_dir, w.seg_idx)
     IN  \E exit \in ExitCodes, size \in FileOutcomes :
           /\ disk' = EngineWrote(disk, j, temp_segment_path, size)
           /\ workers' = [workers EXCEPT ![j] =
                            IF FastAccepted(exit, size) THEN JobAccepted(w, temp_segment_path)
                            ELSE [w EXCEPT !.pc = "fallback"]]
           /\ Touch(j, {temp_segment_path})
  /\ UNCHANGED <<op, pc, raised, returned, cmds, validator_vars, stitch_vars, crop_vars,
                 music_vars, request, registry_vars>>

\* the fallback command of job j for its segment seg_idx; its failure raises
JobExtractFallback(j) ==
  /\ IsConcurrent /\ workers[j].pc = "fallback"
  /\ LET w == workers[j]
         temp_segment_path == JobSegmentPath(w.temp_dir, w.seg_idx)
     IN  \E exit \in ExitCodes, size \in FileOutcomes :
           /\ disk' = EngineWrote(disk, j, temp_segment_path, size)
           /\ workers' = [workers EXCEPT ![j] =
                            IF exit = 0 /\ size # Absent THEN JobAccepted(w, temp_segment_path)
                            ELSE [w EXCEPT !.pc = "cleanup"]]
           /\ Touch(j, {temp_segment_path})
  /\ UNCHANGED <<op, pc, raised, returned, cmds, validator_vars, stitch_vars, crop_vars,
                 music_vars, request, registry_vars>>

\* stitch_videos_together(temp_files, ...): one file is copied; several are
\* checked, and the concat list is created and written
JobStitch(j) ==
  /\ IsConcurrent /\ workers[j].pc = "stitch"
  /\ LET w == workers[j]
     IN  IF SingleInput(w.temp_files)
         THEN /\ workers' = [workers EXCEPT ![j].pc = "cleanup"]
              /\ Touch(j, Range(w.temp_files))
              /\ UNCHANGED disk
         ELSE IF \E p \in Range(w.temp_files) : disk[p] = NoJob
         THEN /\ workers' = [workers EXCEPT ![j].pc = "cleanup"]
              /\ Touch(j, Range(w.temp_files))
              /\ UNCHANGED disk
         ELSE \E temp_list_path \in Exclusive(JobListPaths, disk) :
                /\ disk' = Written(disk, j, temp_list_path)
                /\ workers' = [workers EXCEPT ![j].temp_list_path = temp_list_path,
                                              ![j].pc = "concat_fast"]
                /\ Touch(j, Range(w.temp_files) \cup {temp_list_path})
  /\ UNCHANGED <<op, pc, raised, returned, cmds, validator_vars, stitch_vars, crop_vars,
                 music_vars, request, registry_vars>>

\* the stream-copy concatenation reads the list and the files it names; when
\* it is accepted the finally block unlinks the list
JobConcatFast(j) ==
  /\ IsConcurrent /\ workers[j].pc = "concat_fast"
  /\ LET w == workers[j]
     IN  \E exit \in ExitCodes, size \in FileOutcomes :
           /\ IF FastAccepted(exit, size)
              THEN /\ disk' = Removed(disk, {w.temp_list_path})
                   /\ workers' = [workers EXCEPT ![j].pc = "cleanup"]
              ELSE /\ workers' = [workers EXCEPT ![j].pc = "concat_fallback"]
                   /\ UNCHANGED disk
           /\ Touch(j, Range(w.temp_files) \cup {w.temp_list_path})
  /\ UNCHANGED <<op, pc, raised, returned, cmds, validator_vars, stitch_vars, crop_vars,
                 music_vars, request, registry_vars>>

\* the re-encoding concatenation, then the finally block unlinks the list
JobConcatFallback(j) ==
  /\ IsConcurrent /\ workers[j].pc = "concat_fallback"
  /\ LET w == workers[j]
     IN  /\ disk' = Removed(disk, {w.temp_list_path})
         /\ workers' = [workers EXCEPT ![j].pc = "cleanup"]
         /\ Touch(j, Range(w.temp_files) \cup {w.temp_list_path})
  /\ UNCHANGED <<op, pc, raised, returned, cmds, validator_vars, stitch_vars, crop_vars,
                 music_vars, request, registry_vars>>

\* the finally block of crop_and_stitch_video_segments: unlink every file of
\* temp_files, then rmdir the directory, which the OS refuses while a file is
\* left in it
JobCleanup(j) ==
  /\ IsConcurrent /\ workers[j].pc = "cleanup"
  /\ LET w == workers[j]
         unlinked == Removed(disk, Range(w.temp_files))
         left == {i \in 1..MaxSegs : unlinked[JobSegmentPath(w.temp_dir, i)] # NoJob}
     IN  /\ disk' = IF left = {} THEN Removed(unlinked, {w.temp_dir}) ELSE unlinked
         /\ workers' = [workers EXCEPT ![j].pc = "done"]
         /\ Touch(j, Range(w.temp_files) \cup {w.temp_dir})
  /\ UNCHANGED <<op, pc, raised, returned, cmds, validator_vars, stitch_vars, crop_vars,
                 music_vars, request, registry_vars>>

InitPipeline ==
  /\ op \in SingleOps \cup MultiOps
  /\ job_status = {JobId}
  /\ job \in (IF op \in SingleOps THEN {JobInfo(1)} ELSE {JobInfo(n) : n \in VideoCounts})
  /\ response = "none"
  /\ ValidatorIdle /\ CallIdle /\ StitchIdle /\ MusicIdle /\ JobsIdle
  /\ video_exists = TRUE /\ output_path = <<"out.mp4">> /\ seg_idx = 0
  /\ temp_dir = "unset" /\ files = PipelineFiles /\ temp_files = <<>>

Init ==
  \/ (InitValidate \/ InitCrop \/ InitApplyMusic \/ InitStitch \/ InitMusic \/ InitRequest)
       /\ JobsIdle /\ RegistryIdle
  \/ InitConcurrent
  \/ InitPipeline

Next ==
  \/ SanitizeSegments \/ SanitizeAgain \/ ClampSegments \/ CropVideo \/ ApplyMusic
  \/ CropValidate \/ CropProbe \/ ExtractFast \/ ExtractFallback
  \/ StitchBegin \/ ConcatFast \/ ConcatFallback
  \/ MusicValidate \/ MusicMix
  \/ RequestBuild \/ RequestRun
  \/ \E j \in Jobs :
       \/ JobMkdtemp(j) \/ JobExtractFast(j) \/ JobExtractFallback(j)
       \/ JobStitch(j) \/ JobConcatFast(j) \/ JobConcatFallback(j) \/ JobCleanup(j)
  \/ PipelineStart \/ PipelineUpload \/ PipelineAnalyze \/ PipelineProcess \/ PipelineStitch
  \/ PipelineVideo \/ PipelineAggregate \/ delete_job

Spec == Init /\ [][Next]_vars

\* =========================== the claims ===========================

Ascending(starts) == \A j, k \in 1..Len(starts) : j < k => starts[j] <= starts[k]

\* C1: the segment files handed to the concatenator by
\* crop_and_stitch_video_segments, and the clips joined by crop_video, are in
\* ascending order of segment start time, whatever order the caller used.
C1_ChronologicalOrder ==
  /\ (IsCrop /\ pc = "stitch") =>
       Ascending([k \in 1..Len(video_file_paths) |->
                    segments[SegmentOfFile(video_file_paths[k])].start])
  /\ (op = "crop_video" /\ pc = "done") =>
       Ascending([k \in 1..Len(temp_clips) |-> temp_clips[k].start])

\* the raw pair k of the validator's input, in seconds, and clamped into [0, D]
C2_Into(x, d) == IF x < 0 THEN 0 ELSE IF x > d THEN d ELSE x
C2_Raw(k) ==
  IF op = "_clamp_segments"
  THEN [start |-> _to_seconds(segments[k].start), end |-> _to_seconds(segments[k].end)]
  ELSE [start |-> segments[k].start, end |-> segments[k].end]
C2_Clamped(k) ==
  [start |-> C2_Into(C2_Raw(k).start, video_duration),
   end   |-> C2_Into(C2_Raw(k).end, video_duration)]
C2_Pair(seg) == [start |-> seg.start, end |-> seg.end]

\* C2: sanitize_segments and _clamp_segments return the raw pairs clamped
\* independently into [0, D], without the pairs whose clamped end <= clamped
\* start, sorted ascending by start; every returned segment has
\* 0 <= start < end <= D; {-5, 10} against 20 becomes {0, 10} and {25, 30}
\* against 20 is dropped.
C2_ValidatorContract ==
  (pc = "done" /\ op \in {"sanitize_segments", "_clamp_segments"}) =>
    LET kept == {k \in 1..Len(segments) : C2_Clamped(k).end > C2_Clamped(k).start}
    IN  /\ \A i \in 1..Len(cleaned) :
             /\ 0 <= cleaned[i].start
             /\ cleaned[i].start < cleaned[i].end
             /\ cleaned[i].end <= video_duration
        /\ Ascending([i \in 1..Len(cleaned) |-> cleaned[i].start])
        /\ Len(cleaned) = Cardinality(kept)
        /\ \A k \in kept :
             Cardinality({i \in 1..Len(cleaned) : C2_Pair(cleaned[i]) = C2_Clamped(k)})
               = Cardinality({j \in kept : C2_Clamped(j) = C2_Clamped(k)})
        /\ (op = "_clamp_segments") =>
             \A i \in 1..Len(cleaned) : \E k \in kept :
               /\ C2_Pair(cleaned[i]) = C2_Clamped(k)
               /\ cleaned[i].song_path = segments[k].song_path
        /\ (op = "sanitize_segments" /\ video_duration = 20
              /\ segments = <<[start |-> -5, end |-> 10]>>)
             => cleaned = <<[start |-> 0, end |-> 10]>>
        /\ (op = "sanitize_segments" /\ video_duration = 20
              /\ segments = <<[start |-> 25, end |-> 30]>>)
             => cleaned = <<>>

\* C2 happens: an out-of-order list whose two pairs are both clamped comes
\* back reordered.
C2_Witness ==
  /\ pc = "done" /\ op = "sanitize_segments" /\ video_duration = 20
  /\ segments = <<[start |-> 10, end |-> 30], [start |-> -5, end |-> 10]>>
  /\ cleaned = <<[start |-> 0, end |-> 10], [start |-> 10, end |-> 20]>>

\* C3: every extraction command crop_and_stitch_video_segments launches has
\* 0 <= start < end <= the real duration of the source.
C3_ExtractionTimesInRange ==
  \A n \in 1..Len(cmds) :
    cmds[n].tool = "ffmpeg_extract" =>
      /\ 0 <= cmds[n].start
      /\ cmds[n].duration > 0
      /\ cmds[n].start + cmds[n].duration <= video_duration

\* C4: once crop_and_stitch_video_segments has exited, by return or by
\* exception, no segment file, no temporary directory and no concat list is
\* left, and after a return the output file exists.
C4_NoTempArtifactsAfterExit ==
  (IsCrop /\ pc = "done") =>
    /\ \A f \in SegmentPaths : files[f] = Absent
    /\ temp_dir # "present"
    /\ ~manifest_exists
    /\ (returned # NoPath => output_size # Absent)

\* the fallback extraction logged at n failed: it exited non-zero, or it
\* left no file
C5_FallbackFailed(n) ==
  /\ cmds[n].tool = "ffmpeg_extract" /\ cmds[n].tier = "fallback"
  /\ (cmds[n].exit # 0 \/ cmds[n].size = Absent)

\* C5: when both tiers fail for a segment the job is aborted: no later
\* process is launched (no extraction, no concatenation), no path is returned,
\* and the exception carries the segment's index, its requested times and the
\* engine's diagnostic text.
C5_BothTiersFailAborts ==
  \A n \in 1..Len(cmds) :
    C5_FallbackFailed(n) =>
      /\ n = Len(cmds)
      /\ pc = "done"
      /\ returned = NoPath
      /\ raised.type # "none"
      /\ raised.index = cmds[n].index
      /\ raised.start = cmds[n].start
      /\ raised.duration = cmds[n].duration
      /\ raised.diag

\* C6: whenever a stage reports success (a segment accepted by either tier, a
\* concatenation accepted by either tier, an overlay that returns its path)
\* its output file exists and is larger than 1 KB.
C6_SuccessMeansValidOutput ==
  /\ (IsCrop /\ pc # "done") =>
       \A k \in 1..Len(temp_files) : files[temp_files[k]] > MinValidSize
  /\ (InStitch /\ pc = "done" /\ returned # NoPath) => output_size > MinValidSize
  /\ (IsMusic /\ pc = "done" /\ returned # NoPath) => output_size > MinValidSize

ConcatLaunched == \E n \in 1..Len(cmds) : cmds[n].tool = "ffmpeg_concat"

\* C7: the concat list given to the engine holds one entry per element of the
\* input list, in list order, a repeated path as repeated entries.
C7_ManifestPreservesOrder ==
  ConcatLaunched =>
    /\ Len(manifest) = Len(video_file_paths)
    /\ \A k \in 1..Len(video_file_paths) :
         manifest[k] = ManifestLine(os_name, AbsPath(os_name, video_file_paths[k]))

\* C7 happens: a list that is not sorted and names one path twice was
\* concatenated.
C7_Witness ==
  /\ op = "stitch_videos_together" /\ ConcatLaunched
  /\ video_file_paths = << <<"b">>, <<"/", "a">>, <<"b">> >>
  /\ Len(manifest) = 3

\* C8: every track's chain is gain, then (only if start > 0) a delay of
\* exactly start, then a trim; the track's audio begins at start, spans
\* exactly end - start and never extends past end.
C8_TrackInsideWindow ==
  (IsMusic /\ filter_parts # <<>>) =>
    \A k \in 1..Len(validated_tracks) :
      LET tr == validated_tracks[k]
          st == filter_parts[k + 1].stages
          c  == Contribution(k + 1)
      IN  /\ st[1].f = "volume"
          /\ IF tr.start > 0
             THEN /\ Len(st) = 3 /\ st[2].f = "adelay" /\ st[3].f = "atrim"
                  /\ st[2].arg * TicksPerMs = tr.start
             ELSE /\ Len(st) = 2 /\ st[2].f = "atrim"
          /\ c.from = tr.start
          /\ c.to - c.from = tr.end - tr.start
          /\ c.to <= tr.end

\* C9: each music track reaches the mixer with gain track.volume x
\* musicVolume and the original audio with gain videoAudioVolume; tracks with
\* different volumes get different gains.
C9_TrackGain ==
  (IsMusic /\ filter_parts # <<>>) =>
    /\ ChainGain(1) = video_volume
    /\ \A k \in 1..Len(music_tracks) :
         ChainGain(k + 1) * VolumeUnit = music_tracks[k].volume * music_volume
    /\ \A j, k \in 1..Len(music_tracks) :
         music_tracks[j].volume # music_tracks[k].volume => ChainGain(j + 1) # ChainGain(k + 1)

\* C10: the mix sums N + 1 inputs with the longest-input policy: the mixed
\* audio lasts as long as the longest of its inputs.
C10_MixLongestInput ==
  (IsMusic /\ filter_parts # <<>>) =>
    /\ amix.inputs = Len(validated_tracks) + 1
    /\ amix.duration = "longest"
    /\ \A k \in 1..Len(filter_parts) : Contribution(k).to <= MixedDuration

\* C11: when no track window ends after the video's duration D, the mixed
\* audio and the output both last exactly D: a track that ends before D does
\* not cut the video's tail, a track that ends at D does not extend it.
C11_OutputLastsVideoDuration ==
  (IsMusic /\ filter_parts # <<>>
     /\ \A k \in 1..Len(validated_tracks) : validated_tracks[k].end <= video_duration) =>
    /\ MixedDuration = video_duration
    /\ OutputDuration = video_duration

\* C11 happens: a single track that starts in the middle of the video and ends
\* with it was mixed, and another run mixed a track that ends before the video.
C11_Witness ==
  /\ IsMusic /\ pc = "done" /\ returned # NoPath
  /\ Len(validated_tracks) = 1
  /\ validated_tracks[1].start = TicksPerMs
  /\ validated_tracks[1].end = video_duration
  /\ OutputDuration = video_duration

\* the engine was launched by add_music_to_video
MixLaunched == \E n \in 1..Len(cmds) : cmds[n].tool = "ffmpeg_mix"

\* the validation preconditions of add_music_to_video
C12_Preconditions ==
  /\ \A k \in 1..Len(music_tracks) :
       /\ MusicFileExists(music_tracks[k].path)
       /\ music_tracks[k].end > music_tracks[k].start
  /\ video_volume >= 0
  /\ music_volume >= 0

\* C12: add_music_to_video launches the engine only if every track file
\* exists, every track has end > start and both gains are non-negative; when
\* one of these fails it raises and no process was launched.
C12_EngineOnlyAfterValidation ==
  IsMusic =>
    /\ MixLaunched => C12_Preconditions
    /\ (pc = "done" /\ ~C12_Preconditions) => (raised.type # "none" /\ cmds = <<>>)

RECURSIVE C13_RequestedSeconds(_)
C13_RequestedSeconds(segs) ==
  IF segs = <<>> THEN 0
  ELSE (Head(segs).end - Head(segs).start) + C13_RequestedSeconds(Tail(segs))

\* C13: when crop_and_stitch_video_segments returns and every extraction
\* yielded the duration it was asked for, every segment of the list is in the
\* output once and the output lasts the sum of (end - start) over the
\* segments.
C13_OutputSecondsIsSum ==
  (IsCrop /\ pc = "done" /\ returned # NoPath
     /\ \A k \in 1..Len(video_file_paths) :
          ClipSeconds(video_file_paths[k])
            = ExtractionOf(SegmentOfFile(video_file_paths[k])).duration) =>
    /\ Len(video_file_paths) = Len(segments)
    /\ ConcatSeconds(video_file_paths) = C13_RequestedSeconds(segments)

\* C13 happens: two different ranges, given out of order, the first of them
\* extracted by the fallback, were stitched into an output of 10 s.
C13_Witness ==
  /\ IsCrop /\ pc = "done" /\ returned # NoPath
  /\ segments = <<[start |-> 5, end |-> 10], [start |-> 0, end |-> 5]>>
  /\ ExtractionOf(1).tier = "fallback"
  /\ ConcatSeconds(video_file_paths) = 10

\* C14: stitch_videos_together on a list of one file launches no engine
\* process and writes no concat list; it returns the output path it was given
\* and the output file is a copy of the input (of the one segment file when
\* crop_and_stitch_video_segments made the call).
C14_SingleInputIsCopy ==
  (InStitch /\ pc = "done" /\ Len(video_file_paths) = 1) =>
    /\ ~ConcatLaunched
    /\ manifest = <<>>
    /\ ~manifest_exists
    /\ (op = "stitch_videos_together"
          /\ files[AbsPath(os_name, video_file_paths[1])] # Absent) =>
         /\ raised = NoError
         /\ returned = output_path
         /\ output_size = files[AbsPath(os_name, video_file_paths[1])]
    /\ (IsCrop /\ returned # NoPath) => output_size = ExtractionOf(1).size

\* C14 happens: a list of one existing file was stitched, and the output has
\* the input's size.
C14_Witness ==
  /\ op = "stitch_videos_together" /\ pc = "done"
  /\ video_file_paths = << <<"b">> >>
  /\ returned = output_path
  /\ output_size = InputSize
  /\ cmds = <<>>

\* the kind of error a caller reads from the type of an exception: Python's
\* ValueError is the validation error, an OSError such as FileNotFoundError the
\* resource error
ErrorKind(e) ==
  IF e.type = "ValueError" THEN "ValidationError"
  ELSE IF e.type = "FileNotFoundError" THEN "ResourceError"
  ELSE e.type

\* the call's input does not pass the input checks
InputRefused ==
  \/ ~video_exists
  \/ output_path = <<>>
  \/ IsCrop /\ (segments = <<>> \/ FirstInvalid(segments) # 0)
  \/ IsMusic /\ (music_tracks = <<>> \/ FirstBadTrack(music_tracks) # 0)

\* the call left without launching a process and without creating a
\* temporary directory, a segment file, a concat list or an output file
NothingStarted ==
  /\ cmds = <<>>
  /\ temp_dir = "unset"
  /\ \A f \in SegmentPaths : files[f] = Absent
  /\ ~manifest_exists
  /\ output_size = Absent

\* the part of C15 about the order of events
C15_RaisedBeforeAnyProcess ==
  ((IsCrop \/ IsMusic) /\ pc = "done" /\ InputRefused) =>
    (raised.type # "none" /\ returned = NoPath /\ NothingStarted)

\* C15: an input that fails the checks of crop_and_stitch_video_segments or
\* add_music_to_video is refused before any process is launched and before any
\* temporary directory or file is created, and a source video path that does
\* not exist is refused with a resource error.
C15_FailFastWithResourceError ==
  /\ C15_RaisedBeforeAnyProcess
  /\ ((IsCrop \/ IsMusic) /\ pc = "done" /\ ~video_exists) =>
       ErrorKind(raised) = "ResourceError"

\* the raw pair k in seconds, as read by the function called
C16_Seconds(k) ==
  IF op = "apply_music"
  THEN [start |-> _to_seconds(segments[k].start), end |-> _to_seconds(segments[k].end)]
  ELSE [start |-> segments[k].start, end |-> segments[k].end]

\* no pair of the list survives validation against the source's duration:
\* clamped into [0, D], every pair has end <= start
C16_NoSurvivor ==
  \A k \in 1..Len(segments) :
    C2_Into(C16_Seconds(k).end, video_duration) <= C2_Into(C16_Seconds(k).start, video_duration)

\* C16: when no segment survives validation (the list is empty or every pair
\* is discarded), crop_video, apply_music and crop_and_stitch_video_segments
\* fail with a validation error, and no process was launched, no clip was cut
\* and no output was written.
C16_NoSurvivorIsValidationError ==
  (op \in {"crop_video", "apply_music", "crop_and_stitch_video_segments"}
     /\ pc = "done" /\ video_exists /\ output_path # <<>> /\ C16_NoSurvivor) =>
    /\ ErrorKind(raised) = "ValidationError"
    /\ returned = NoPath
    /\ cmds = <<>>
    /\ temp_clips = <<>>
    /\ output_size = Absent

\* the attempts made for a unit of work: the extractions of segment k, or
\* (k = 0) the concatenations
C17_Attempts(tool, k) == {n \in 1..Len(cmds) : cmds[n].tool = tool /\ cmds[n].index = k}

\* the last attempt made for the unit exited 0 and left its file
C17_LastAttemptSucceeded(tool, k) ==
  /\ C17_Attempts(tool, k) # {}
  /\ LET last == CHOOSE n \in C17_Attempts(tool, k) : \A m \in C17_Attempts(tool, k) : m <= n
     IN  cmds[last].exit = 0 /\ cmds[last].size # Absent

\* every unit of work of the run was attempted and its last attempt succeeded
C17_AllUnitsSucceeded ==
  /\ IsCrop => \A k \in 1..Len(segments) : C17_LastAttemptSucceeded("ffmpeg_extract", k)
  /\ (IsCrop /\ Len(segments) > 1) => C17_LastAttemptSucceeded("ffmpeg_concat", 0)
  /\ ~IsCrop => C17_LastAttemptSucceeded("ffmpeg_concat", 0)

\* C17: once crop_and_stitch_video_segments (past its input checks) or
\* stitch_videos_together (once it concatenates) has exited, it returned the
\* output path if and only if the last attempt of every unit of work
\* succeeded, and otherwise it raised: a failed fast attempt alone does not
\* fail the job and a failed last attempt is never passed over.
C17_ReturnsIffLastAttemptsSucceed ==
  (pc = "done" /\ (IF IsCrop THEN cmds # <<>> ELSE InStitch /\ ConcatLaunched)) =>
    /\ (returned # NoPath) <=> C17_AllUnitsSucceeded
    /\ (returned = NoPath) <=> (raised.type # "none")

\* C17 happens: a job whose fast extraction and fast concatenation both
\* failed returned its output path after both fallbacks succeeded.
C17_Witness ==
  /\ IsCrop /\ pc = "done" /\ returned # NoPath
  /\ \E n \in 1..Len(cmds) :
       cmds[n].tool = "ffmpeg_extract" /\ cmds[n].tier = "fast" /\ cmds[n].exit # 0
  /\ \E n \in 1..Len(cmds) :
       cmds[n].tool = "ffmpeg_concat" /\ cmds[n].tier = "fast" /\ cmds[n].exit # 0
  /\ cmds[Len(cmds)].tier = "fallback"

\* the list is what a validator returns: in range, of positive length, sorted
C18_Validated(segs, d) ==
  /\ \A k \in 1..Len(segs) : 0 <= segs[k].start /\ segs[k].start < segs[k].end /\ segs[k].end <= d
  /\ Ascending([k \in 1..Len(segs) |-> segs[k].start])

\* C18: validating the list sanitize_segments returned gives that list again,
\* and sanitize_segments returns unchanged, in the same order, every list that
\* is already in range, of positive lengths and sorted by start.
C18_ValidatorIdempotent ==
  /\ (op = "sanitize_segments" /\ pc = "revalidated") => cleaned = segments
  /\ (op = "sanitize_segments" /\ pc = "done" /\ C18_Validated(segments, video_duration)) =>
       cleaned = segments

\* C18 happens: a list whose two segments come out with equal starts and
\* different ends was validated a second time.
C18_Witness ==
  /\ op = "sanitize_segments" /\ pc = "revalidated"
  /\ segments = <<[start |-> 0, end |-> 20], [start |-> 0, end |-> 10]>>
  /\ cleaned = segments

\* the stage a failed crop_and_stitch_video_segments call failed in
C19_FailedStage ==
  IF cmds = <<>> THEN "validation"
  ELSE IF cmds[Len(cmds)].tool = "ffmpeg_extract" THEN "extraction"
  ELSE "concatenation"

\* the exception types the caller of crop_and_stitch_video_segments gets when
\* the extraction fallback, and when the concatenation fallback, exits non-zero
C19_ExtractionFailureType == WrapCrop(Err("RuntimeError", "Segment cropping failed")).type
C19_ConcatenationFailureType ==
  WrapCrop(WrapStitch(Err("RuntimeError", "Video stitching failed"))).type

\* C19: a failed crop_and_stitch_video_segments call raises an error whose
\* type tells the failing stage (validation, extraction and concatenation
\* failures have three different types) and which carries the failing unit's
\* context: the segment index and times for a refused or failed segment, and
\* the engine's diagnostic text for a failed process.
C19_TypedErrorPerStage ==
  (IsCrop /\ pc = "done" /\ raised.type # "none") =>
    /\ (C19_FailedStage = "validation") =>
         /\ ErrorKind(raised) = "ValidationError"
         /\ (video_exists /\ segments # <<>> /\ output_path # <<>>) =>
              (raised.index = FirstInvalid(segments)
                 /\ (segments[raised.index].start < 0 => raised.start = segments[raised.index].start))
    /\ (C19_FailedStage = "extraction") =>
         /\ raised.type \notin {"ValueError", C19_ConcatenationFailureType}
         /\ raised.index = seg_idx
         /\ raised.start = segments[seg_idx].start
         /\ raised.duration = segments[seg_idx].end - segments[seg_idx].start
         /\ raised.diag
    /\ (C19_FailedStage = "concatenation") =>
         /\ raised.type \notin {"ValueError", C19_ExtractionFailureType}
         /\ raised.diag

\* the engine run of stitch_ffmpeg_request
C20_Run == cmds[Len(cmds)]

\* the part of C20 about the exit code: the path is returned exactly when the
\* engine exited 0, and a non-zero exit raises RuntimeError
C20_ReturnsIffExitZero ==
  (IsRequest /\ pc = "done") =>
    /\ (returned # NoPath) <=> (cmds # <<>> /\ C20_Run.exit = 0)
    /\ (returned # NoPath) => returned = request.output_file
    /\ (cmds # <<>> /\ C20_Run.exit # 0) => (raised.type = "RuntimeError" /\ returned = NoPath)

\* C20: stitch_ffmpeg_request returns request.output_file exactly when the
\* engine run succeeded, the output file then exists and is not empty; when
\* the engine run failed it raises RuntimeError and returns no path.
C20_ReturnsPathOfExistingOutput ==
  /\ C20_ReturnsIffExitZero
  /\ (IsRequest /\ pc = "done" /\ returned # NoPath) =>
       (output_size # Absent /\ output_size > 0)

\* C21: a request holding a segment whose file_type is neither 'audio' nor
\* 'video', at any position of the list, makes stitch_ffmpeg_request raise
\* ValueError "Invalid file type" before the engine is run: no process was
\* launched, no output file exists, no path is returned.
C21_InvalidTypeRaisesBeforeRun ==
  (IsRequest /\ pc = "done"
     /\ \E k \in 1..Len(request.input_segments) :
          request.input_segments[k].file_type \notin {"audio", "video"}) =>
    /\ raised.type = "ValueError"
    /\ raised.msg = "Invalid file type"
    /\ returned = NoPath
    /\ cmds = <<>>
    /\ output_size = Absent

\* C21 happens: the refused segment came second, after a valid video segment.
C21_Witness ==
  /\ IsRequest /\ pc = "done"
  /\ Len(request.input_segments) = 2
  /\ request.input_segments[1].file_type = "video"
  /\ request.input_segments[2].file_type = "image"
  /\ raised.type = "ValueError"

\* the attempt logged at n is one of the two tiers of a unit of work
C22_IsAttempt(n) == cmds[n].tool \in {"ffmpeg_extract", "ffmpeg_concat"}
C22_SameUnit(m, n) == cmds[m].tool = cmds[n].tool /\ cmds[m].index = cmds[n].index

\* the fast attempt at n failed: it exited non-zero, or left no file, or a
\* file not above the size threshold
C22_FastFailed(n) ==
  cmds[n].exit # 0 \/ cmds[n].size = Absent \/ cmds[n].size <= MinValidSize

\* the fallback attempt at n failed: it exited non-zero or left no file
C22_FallbackFailed(n) == cmds[n].exit # 0 \/ cmds[n].size = Absent

\* the fallback of the unit whose fast attempt was the last process launched
\* is the next thing the function does
C22_FallbackPending == pc \in {"fallback", "concat_fallback"}

\* C22: each segment extraction and each concatenation starts with one fast
\* attempt; its fallback is run exactly when the fast attempt exited non-zero
\* or left no file above the size threshold, directly after it and once; and
\* after a failed fallback no process is launched any more.
C22_FastThenFallbackOnce ==
  \A n \in 1..Len(cmds) :
    C22_IsAttempt(n) =>
      /\ \A m \in (n + 1)..Len(cmds) : ~(C22_SameUnit(m, n) /\ cmds[m].tier = cmds[n].tier)
      /\ (cmds[n].tier = "fast") =>
           IF C22_FastFailed(n)
           THEN IF n = Len(cmds) THEN C22_FallbackPending
                ELSE C22_SameUnit(n + 1, n) /\ cmds[n + 1].tier = "fallback"
           ELSE /\ ~(n = Len(cmds) /\ C22_FallbackPending)
                /\ \A m \in 1..Len(cmds) : m # n => ~C22_SameUnit(m, n)
      /\ (cmds[n].tier = "fallback") =>
           /\ n > 1 /\ C22_SameUnit(n - 1, n) /\ cmds[n - 1].tier = "fast" /\ C22_FastFailed(n - 1)
           /\ C22_FallbackFailed(n) => (n = Len(cmds) /\ pc = "done" /\ raised.type # "none")

\* C22 happens: a fast extraction that exited 0 with a file at the threshold
\* was followed by its fallback, and the job went on to the next unit.
C22_Witness ==
  /\ IsCrop /\ Len(cmds) >= 4
  /\ cmds[2].tool = "ffmpeg_extract" /\ cmds[2].tier = "fast"
  /\ cmds[2].exit = 0 /\ cmds[2].size = MinValidSize
  /\ cmds[3].tier = "fallback" /\ cmds[3].index = cmds[2].index
  /\ cmds[4].tier = "fast" /\ cmds[4].index # cmds[3].index

\* the gain of a chain of filters (the product of its volume filters, in
\* VolumeUnit) and its delay (the sum of its adelay filters, in ms)
RECURSIVE C23_Gain(_)
C23_Gain(stages) ==
  IF stages = <<>> THEN VolumeUnit
  ELSE IF Head(stages).f = "volume"
       THEN (Head(stages).arg * C23_Gain(Tail(stages))) \div VolumeUnit
       ELSE C23_Gain(Tail(stages))
RECURSIVE C23_Delay(_)
C23_Delay(stages) ==
  IF stages = <<>> THEN 0
  ELSE (IF Head(stages).f = "adelay" THEN Head(stages).arg ELSE 0) + C23_Delay(Tail(stages))
C23_Count(stages, f) == Cardinality({j \in 1..Len(stages) : stages[j].f = f})

\* C23: in stitch_ffmpeg_request each audio segment gives the mixer one
\* stream, filtered once with the segment's own settings: at most one volume
\* filter, gain equal to the segment's volume, and one delay of the segment's
\* start_time exactly when start_time > 0.
C23_AudioFilteredOnce ==
  (IsRequest /\ pc # "start" /\ raised.type # "ValueError") =>
    \A k \in 1..Len(request.input_segments) :
      LET segment == request.input_segments[k]
          mine    == {i \in 1..Len(filter_parts) : filter_parts[i].input = k}
          start_ms == _time_to_seconds(segment.start_time) * MsPerSecond
      IN  segment.file_type = "audio" =>
            /\ Cardinality(mine) = 1
            /\ \A i \in mine :
                 /\ C23_Count(filter_parts[i].stages, "volume") <= 1
                 /\ C23_Gain(filter_parts[i].stages) = segment.volume
                 /\ C23_Count(filter_parts[i].stages, "adelay") = (IF start_ms > 0 THEN 1 ELSE 0)
                 /\ C23_Delay(filter_parts[i].stages) = start_ms

C24_Mixes == SelectSeq(cmds, LAMBDA c : c.tool = "ffmpeg_mix")
C24_Failed(c) == c.exit # 0 \/ c.size = Absent

\* C24: add_music_to_video is fast-then-fallback: when its first engine run
\* fails it runs the engine exactly once more, and it raises the mix error
\* only when that second run failed too.
C24_MixFallsBackOnce ==
  (IsMusic /\ pc = "done" /\ C24_Mixes # <<>> /\ C24_Failed(C24_Mixes[1])) =>
    /\ Len(C24_Mixes) = 2
    /\ (raised.type = "RuntimeError") <=> C24_Failed(C24_Mixes[2])

C25_IsExtract(n) == cmds[n].tool = "ffmpeg_extract"
C25_IsConcat(n) == cmds[n].tool = "ffmpeg_concat"
\* attempt n produced the segment file the code accepts
C25_Accepted(n) ==
  IF cmds[n].tier = "fast" THEN FastAccepted(cmds[n].exit, cmds[n].size)
  ELSE cmds[n].exit = 0 /\ cmds[n].size # Absent
C25_ExtractedOk(i) ==
  \E n \in 1..Len(cmds) : C25_IsExtract(n) /\ cmds[n].index = i /\ C25_Accepted(n)
C25_Stitching == pc \in {"stitch", "concat_fast", "concat_fallback"}

\* C25: the stages of one crop-and-stitch job are sequential: an attempt on
\* a segment is launched after all attempts on the earlier segments, and the
\* first attempt on segment i+1 directly after the attempt that produced
\* segment i; concatenation starts after every requested segment was
\* produced, and then there is exactly one existing file per segment.
C25_StagesSequential ==
  IsCrop =>
    /\ \A m \in 2..Len(cmds) :
         /\ (C25_IsExtract(m) /\ ~C25_IsExtract(m - 1)) =>
              (cmds[m - 1].tool = "ffprobe" /\ cmds[m].index = 1)
         /\ (C25_IsExtract(m) /\ C25_IsExtract(m - 1)) =>
              \/ cmds[m].index = cmds[m - 1].index
              \/ cmds[m].index = cmds[m - 1].index + 1 /\ C25_Accepted(m - 1)
         /\ C25_IsConcat(m) =>
              \/ C25_IsConcat(m - 1)
              \/ /\ C25_IsExtract(m - 1) /\ C25_Accepted(m - 1)
                 /\ cmds[m - 1].index = Len(segments)
    /\ (cmds # <<>>) => ~C25_IsExtract(1) /\ ~C25_IsConcat(1)
    /\ C25_Stitching =>
         /\ \A i \in 1..Len(segments) : C25_ExtractedOk(i)
         /\ Len(temp_files) = Len(segments)
         /\ \A i \in 1..Len(segments) :
              temp_files[i] = SegmentPath(i) /\ files[temp_files[i]] # Absent

C25_Witness ==
  /\ IsCrop /\ pc = "concat_fast" /\ Len(segments) = 2
  /\ \E n \in 1..Len(cmds) :
       C25_IsExtract(n) /\ cmds[n].index = 1 /\ cmds[n].tier = "fallback"
  /\ \E n \in 1..Len(cmds) :
       C25_IsExtract(n) /\ cmds[n].index = 2 /\ cmds[n].tier = "fast" /\ C25_Accepted(n)

C26_Live(j) == workers[j].pc \notin {"start", "done"}
C26_Listing(j) == workers[j].pc \in {"concat_fast", "concat_fallback"}

\* C26: concurrent crop-and-stitch jobs never share a temporary artifact:
\* every temporary path a job reads, writes or deletes holds nothing or
\* something that job created; two jobs at work never hold the same temporary
\* directory, and two jobs that are concatenating never hold the same list.
C26_TempPathsNotShared ==
  IsConcurrent =>
    /\ touched.creators \subseteq {touched.job, NoJob}
    /\ \A j, k \in Jobs :
         (j # k /\ C26_Live(j) /\ C26_Live(k)) => workers[j].temp_dir # workers[k].temp_dir
    /\ \A j, k \in Jobs :
         (j # k /\ C26_Listing(j) /\ C26_Listing(k)) =>
           workers[j].temp_list_path # workers[k].temp_list_path

\* two jobs on the same segment list are concatenating at the same time
C26_Witness ==
  /\ IsConcurrent /\ Len(segments) = 2
  /\ \A j \in Jobs : C26_Listing(j)
  /\ touched.job # NoJob

\* C27: escaping round-trips: every line of the concat list written by
\* stitch_videos_together, read as the engine reads it, gives back exactly the
\* path it was written for, single quotes and backslashes included.
C27_ManifestRoundTrips ==
  (InStitch /\ manifest # <<>>) =>
    /\ Len(manifest) = Len(video_file_paths)
    /\ \A k \in 1..Len(manifest) :
         ConcatListPath(manifest[k]) = NormalizedPaths(os_name, video_file_paths)[k]

\* the round trip holds for the paths without a single quote or a backslash
C27_PlainPathsRoundTrip ==
  (InStitch /\ manifest # <<>>) =>
    \A k \in 1..Len(manifest) :
      LET path == NormalizedPaths(os_name, video_file_paths)[k]
      IN  (\A i \in 1..Len(path) : path[i] \notin {"'", "\\"}) =>
            ConcatListPath(manifest[k]) = path

C28_Returned == IsPipeline /\ pc = "done" /\ raised = NoError

C28_OthersReturnTerminal ==
  (C28_Returned /\ op # "upload_video_pipeline") => job.status \in {COMPLETED, FAILED}

C29_Finished == op \in MultiOps /\ pc = "done"

\* C29: a multi-video job is COMPLETED only if at least one of its videos was
\* processed successfully, and a batch whose videos all failed ends FAILED.
C29_CompletedNeedsASuccess ==
  C29_Finished =>
    /\ job.status = COMPLETED => ~NoneSucceeded(job.video_results)
    /\ NoneSucceeded(job.video_results) => job.status = FAILED

\* the same for process_multi_video_pipeline of app/pipeline.py alone
C29_PipelineModuleNeedsASuccess ==
  (C29_Finished /\ op \notin MainOps) =>
    /\ job.status = COMPLETED => ~NoneSucceeded(job.video_results)
    /\ NoneSucceeded(job.video_results) => job.status = FAILED

\* C30: however delete_job interleaves with the job's pipeline of app/main.py,
\* the pipeline never looks up a registry entry that is gone (no KeyError
\* leaves it, its except block included) and never puts the job back.
C30_DeleteIsSafe ==
  op = "main.process_video_pipeline" =>
    /\ raised.type # "KeyError"
    /\ response = "deleted" => ~Registered

\* the pipeline never puts a deleted job back into the registry
C30_NeverRecreated ==
  (op \in SingleOps /\ response = "deleted") => ~Registered

====
